---- MODULE Spec2Model ----
(***************************************************************************)
(* A model of the ralph-loop agent: the agent loop (BaseAgent.run), the    *)
(* tool-call parser (BaseAgent._parse_tool_calls), tool dispatch           *)
(* (BaseAgent._execute_tool, ToolRegistry) and the file tools              *)
(* (libs/tools/tools.py).                                                  *)
(*                                                                         *)
(* Text is a sequence of tokens (one token = one lexical piece of the      *)
(* text: a fence, a word, a newline, a JSON punctuation mark ...).  A      *)
(* Python str value is the sequence of its pieces.  A JSON value is a      *)
(* tagged record [t, v]; a dict keeps its insertion order as a sequence    *)
(* of [k, x] pairs.                                                        *)
(***************************************************************************)
EXTENDS Integers, Sequences, FiniteSets, TLC

----------------------------------------------------------------------------
(* Tokens of text *)

FENCE == "FENCE"
NL == "NL"
SP == "SP"
QUOTE == "QUOTE"
ESC_NL == "ESC_NL"
ESC_QUOTE == "ESC_QUOTE"
TOOL_OPEN == "[TOOL:"
ARGS_OPEN == "[ARGS:"

Whitespace == {NL, SP}

\* the alternatives of md_pattern's tag group
FenceTags == {"tool", "bash", "command"}

\* the number literals of the model: one token per number
NumLits == {"0", "1", "2", "3", "4", "5", "6", "7", "8", "9"}

\* tokens made of \w characters only
WordToks ==
    FenceTags \cup NumLits \cup
    {"python", "read", "write", "edit", "glob", "grep", "list_files", "fly",
     "args", "arguments", "file_path", "content", "old_string", "new_string",
     "replace_all", "command", "timeout", "pattern", "path", "include",
     "true", "false", "null", "ls", "done", "a", "b", "aa", "x"}

----------------------------------------------------------------------------
(* JSON values *)

Str(pieces) == [t |-> "str", v |-> pieces]
Num(n) == [t |-> "num", v |-> n]
Bool(b) == [t |-> "bool", v |-> b]
Null == [t |-> "null", v |-> 0]
Arr(items) == [t |-> "arr", v |-> items]
Obj(pairs) == [t |-> "obj", v |-> pairs]

S(w) == Str(<<w>>)

IsDict(x) == x.t = "obj"

\* `key in d` for a dict d (the sequence of its pairs)
HasKey(pairs, key) == \E i \in 1..Len(pairs) : pairs[i].k = key

\* d[key] for a key that is present
Lookup(pairs, key) ==
    pairs[CHOOSE i \in 1..Len(pairs) : pairs[i].k = key].x

\* d.get(key, default)
DictGet(pairs, key, default) ==
    IF HasKey(pairs, key) THEN Lookup(pairs, key) ELSE default

\* d[key] = x : a new key goes last, a present key keeps its place
DictSet(pairs, key, x) ==
    IF HasKey(pairs, key)
    THEN [i \in 1..Len(pairs) |->
            IF pairs[i].k = key THEN [k |-> key, x |-> x] ELSE pairs[i]]
    ELSE Append(pairs, [k |-> key, x |-> x])

KV(key, x) == [k |-> <<key>>, x |-> x]

----------------------------------------------------------------------------
(* json.loads over tokens *)

NumVal(tok) ==
    CASE tok = "0" -> 0 [] tok = "1" -> 1 [] tok = "2" -> 2 [] tok = "3" -> 3
      [] tok = "4" -> 4 [] tok = "5" -> 5 [] tok = "6" -> 6 [] tok = "7" -> 7
      [] tok = "8" -> 8 [] tok = "9" -> 9

ParseFail == [ok |-> FALSE, val |-> Null, next |-> 0]
ParseOk(val, next) == [ok |-> TRUE, val |-> val, next |-> next]

RECURSIVE SkipWs(_, _)
SkipWs(toks, i) ==
    IF i <= Len(toks) /\ toks[i] \in Whitespace THEN SkipWs(toks, i + 1) ELSE i

\* the pieces of a string literal whose opening quote is at i - 1; a raw
\* newline inside a string literal is a control character (strict mode)
RECURSIVE ParseStringBody(_, _, _)
ParseStringBody(toks, i, acc) ==
    IF i > Len(toks) THEN ParseFail
    ELSE IF toks[i] = QUOTE THEN ParseOk(Str(acc), i + 1)
    ELSE IF toks[i] = NL THEN ParseFail
    ELSE IF toks[i] = ESC_NL THEN ParseStringBody(toks, i + 1, Append(acc, NL))
    ELSE IF toks[i] = ESC_QUOTE THEN ParseStringBody(toks, i + 1, Append(acc, QUOTE))
    ELSE ParseStringBody(toks, i + 1, Append(acc, toks[i]))

ParseString(toks, i) ==
    IF i <= Len(toks) /\ toks[i] = QUOTE
    THEN ParseStringBody(toks, i + 1, <<>>)
    ELSE ParseFail

RECURSIVE ParseValue(_, _)
RECURSIVE ParseMembers(_, _, _)
RECURSIVE ParseElements(_, _, _)

ParseValue(toks, i0) ==
    LET i == SkipWs(toks, i0) IN
    IF i > Len(toks) THEN ParseFail
    ELSE IF toks[i] = "{" THEN
        LET j == SkipWs(toks, i + 1) IN
        IF j <= Len(toks) /\ toks[j] = "}"
        THEN ParseOk(Obj(<<>>), j + 1)
        ELSE ParseMembers(toks, j, <<>>)
    ELSE IF toks[i] = "[" THEN
        LET j == SkipWs(toks, i + 1) IN
        IF j <= Len(toks) /\ toks[j] = "]"
        THEN ParseOk(Arr(<<>>), j + 1)
        ELSE ParseElements(toks, j, <<>>)
    ELSE IF toks[i] = QUOTE THEN ParseString(toks, i)
    ELSE IF toks[i] \in NumLits THEN ParseOk(Num(NumVal(toks[i])), i + 1)
    ELSE IF toks[i] = "true" THEN ParseOk(Bool(TRUE), i + 1)
    ELSE IF toks[i] = "false" THEN ParseOk(Bool(FALSE), i + 1)
    ELSE IF toks[i] = "null" THEN ParseOk(Null, i + 1)
    ELSE ParseFail

ParseMembers(toks, i, acc) ==
    LET s == ParseString(toks, SkipWs(toks, i)) IN
    IF ~s.ok THEN ParseFail
    ELSE
        LET c == SkipWs(toks, s.next) IN
        IF c > Len(toks) \/ toks[c] # ":" THEN ParseFail
        ELSE
            LET x == ParseValue(toks, c + 1) IN
            IF ~x.ok THEN ParseFail
            ELSE
                LET acc2 == DictSet(acc, s.val.v, x.val)
                    d == SkipWs(toks, x.next)
                IN  IF d > Len(toks) THEN ParseFail
                    ELSE IF toks[d] = "}" THEN ParseOk(Obj(acc2), d + 1)
                    ELSE IF toks[d] = "," THEN ParseMembers(toks, d + 1, acc2)
                    ELSE ParseFail

ParseElements(toks, i, acc) ==
    LET x == ParseValue(toks, i) IN
    IF ~x.ok THEN ParseFail
    ELSE
        LET acc2 == Append(acc, x.val)
            d == SkipWs(toks, x.next)
        IN  IF d > Len(toks) THEN ParseFail
            ELSE IF toks[d] = "]" THEN ParseOk(Arr(acc2), d + 1)
            ELSE IF toks[d] = "," THEN ParseElements(toks, d + 1, acc2)
            ELSE ParseFail

\* json.loads(text): ok = FALSE stands for json.JSONDecodeError
json_loads(toks) ==
    LET r == ParseValue(toks, 1) IN
    IF r.ok /\ SkipWs(toks, r.next) > Len(toks)
    THEN [ok |-> TRUE, val |-> r.val]
    ELSE [ok |-> FALSE, val |-> Null]

----------------------------------------------------------------------------
(* BaseAgent._parse_tool_calls *)

\* text[a..b], empty when b < a
Slice(toks, a, b) == IF b < a THEN <<>> ELSE SubSeq(toks, a, b)

\* str.strip()
RECURSIVE LastNonWs(_, _)
LastNonWs(toks, i) ==
    IF i >= 1 /\ toks[i] \in Whitespace THEN LastNonWs(toks, i - 1) ELSE i

strip(toks) == Slice(toks, SkipWs(toks, 1), LastNonWs(toks, Len(toks)))

NoMatch == [found |-> FALSE, first |-> 0, last |-> 0, g1 |-> <<>>, g2 |-> <<>>]

\* the lazy (.*?)\n``` : the first newline at or after i that a fence follows
RECURSIVE MdBodyEnd(_, _)
MdBodyEnd(toks, i) ==
    IF i + 1 > Len(toks) THEN 0
    ELSE IF toks[i] = NL /\ toks[i + 1] = FENCE THEN i
    ELSE MdBodyEnd(toks, i + 1)

\* the greedy \s*\n : the header newline is tried from the last newline of
\* the whitespace run [lo, k] back to the first, until a body end is found
RECURSIVE MdHeader(_, _, _, _)
MdHeader(toks, start, lo, k) ==
    IF k < lo THEN NoMatch
    ELSE IF toks[k] = NL /\ MdBodyEnd(toks, k + 1) # 0
    THEN LET e == MdBodyEnd(toks, k + 1) IN
         [found |-> TRUE, first |-> start, last |-> e + 1,
          g1 |-> Slice(toks, k + 1, e - 1), g2 |-> <<>>]
    ELSE MdHeader(toks, start, lo, k - 1)

\* md_pattern = ```(?:tool|bash|command)\s*\n(.*?)\n``` matched at i (DOTALL)
MdMatchAt(toks, i) ==
    IF i + 1 <= Len(toks) /\ toks[i] = FENCE /\ toks[i + 1] \in FenceTags
    THEN MdHeader(toks, i, i + 2, SkipWs(toks, i + 2) - 1)
    ELSE NoMatch

\* \w+ : the end of the run of word tokens that starts at i (i - 1 if none)
RECURSIVE WordRunEnd(_, _)
WordRunEnd(toks, i) ==
    IF i <= Len(toks) /\ toks[i] \in WordToks THEN WordRunEnd(toks, i + 1) ELSE i - 1

\* the lazy ({.*?})\s*\] : the first closing brace at or after i that is
\* followed, after optional whitespace, by a closing bracket
RECURSIVE BracketArgsEnd(_, _)
BracketArgsEnd(toks, i) ==
    IF i > Len(toks) THEN 0
    ELSE IF toks[i] = "}"
            /\ SkipWs(toks, i + 1) <= Len(toks)
            /\ toks[SkipWs(toks, i + 1)] = "]"
    THEN i
    ELSE BracketArgsEnd(toks, i + 1)

\* bracket_pattern = \[TOOL:\s*(\w+)\s*\]\s*\[ARGS:\s*({.*?})\s*\] at i
BracketMatchAt(toks, i) ==
    IF i > Len(toks) \/ toks[i] # TOOL_OPEN THEN NoMatch
    ELSE
      LET w1 == SkipWs(toks, i + 1)
          w2 == WordRunEnd(toks, w1)
          c1 == SkipWs(toks, w2 + 1)
          a0 == SkipWs(toks, c1 + 1)
          b0 == SkipWs(toks, a0 + 1)
      IN  IF w2 < w1 THEN NoMatch
          ELSE IF c1 > Len(toks) \/ toks[c1] # "]" THEN NoMatch
          ELSE IF a0 > Len(toks) \/ toks[a0] # ARGS_OPEN THEN NoMatch
          ELSE IF b0 > Len(toks) \/ toks[b0] # "{" THEN NoMatch
          ELSE IF BracketArgsEnd(toks, b0 + 1) = 0 THEN NoMatch
          ELSE LET e == BracketArgsEnd(toks, b0 + 1) IN
               [found |-> TRUE, first |-> i, last |-> SkipWs(toks, e + 1),
                g1 |-> Slice(toks, w1, w2), g2 |-> Slice(toks, b0, e)]

\* re.finditer: the matches from left to right, none overlapping another
RECURSIVE MdFindIter(_, _)
MdFindIter(toks, pos) ==
    IF pos > Len(toks) THEN <<>>
    ELSE LET m == MdMatchAt(toks, pos) IN
         IF m.found THEN <<m>> \o MdFindIter(toks, m.last + 1)
         ELSE MdFindIter(toks, pos + 1)

RECURSIVE BracketFindIter(_, _)
BracketFindIter(toks, pos) ==
    IF pos > Len(toks) THEN <<>>
    ELSE LET m == BracketMatchAt(toks, pos) IN
         IF m.found THEN <<m>> \o BracketFindIter(toks, m.last + 1)
         ELSE BracketFindIter(toks, pos + 1)

ToolCall(tool, args) == [tool |-> tool, args |-> args]

MdCalls_ArgumentsFirst(m) ==
    LET tool_data == json_loads(m.g1) IN
    IF tool_data.ok
    THEN IF IsDict(tool_data.val) /\ HasKey(tool_data.val.v, <<"tool">>)
         THEN <<ToolCall(Lookup(tool_data.val.v, <<"tool">>),
                         DictGet(tool_data.val.v, <<"arguments">>,
                                 DictGet(tool_data.val.v, <<"args">>, Obj(<<>>))))>>
         ELSE <<>>
    ELSE <<ToolCall(S("bash"), Obj(<<KV("command", Str(strip(m.g1)))>>))>>

\* the body of the first loop: the calls one fenced block adds
MdCalls(m) ==
    LET tool_data == json_loads(m.g1) IN
    IF tool_data.ok
    THEN IF IsDict(tool_data.val) /\ HasKey(tool_data.val.v, <<"tool">>)
         THEN <<ToolCall(Lookup(tool_data.val.v, <<"tool">>),
                         DictGet(tool_data.val.v, <<"args">>,
                                 DictGet(tool_data.val.v, <<"arguments">>, Obj(<<>>))))>>
         ELSE <<>>
    ELSE <<ToolCall(S("bash"), Obj(<<KV("command", Str(strip(m.g1)))>>))>>

\* the body of the second loop: the calls one bracketed directive adds
BracketCalls(m) ==
    LET args == json_loads(m.g2) IN
    IF args.ok THEN <<ToolCall(Str(m.g1), args.val)>> ELSE <<>>

RECURSIVE FlatMapMd(_)
FlatMapMd(ms) ==
    IF ms = <<>> THEN <<>> ELSE MdCalls(Head(ms)) \o FlatMapMd(Tail(ms))

RECURSIVE FlatMapBracket(_)
FlatMapBracket(ms) ==
    IF ms = <<>> THEN <<>> ELSE BracketCalls(Head(ms)) \o FlatMapBracket(Tail(ms))

_parse_tool_calls_AnyText(content) ==
    <<ToolCall(S("bash"), Obj(<<KV("command", Str(strip(content)))>>))>>

_parse_tool_calls_BracketFirst(content) ==
    FlatMapBracket(BracketFindIter(content, 1)) \o FlatMapMd(MdFindIter(content, 1))

_parse_tool_calls(content) ==
    FlatMapMd(MdFindIter(content, 1)) \o FlatMapBracket(BracketFindIter(content, 1))


----------------------------------------------------------------------------
(* The filesystem the tools act on, and libs/tools/tools.py *)

VARIABLES
    platform,       \* os.name: "posix" or "nt"
    files,          \* path -> [exists, data, writable]
    dirs,           \* the directories that exist
    fs_log          \* every mutating filesystem call made, in order, with the
                    \* file_path argument of the tool that made it

fsvars == <<platform, files, dirs, fs_log>>

\* the path strings of the model; the working directory is the project root
Paths == {"notes.txt", "sub/new.txt", "/etc/passwd", "D:/x.txt"}

Absent == [exists |-> FALSE, data |-> <<>>, writable |-> TRUE]
File(data, writable) == [exists |-> TRUE, data |-> data, writable |-> writable]

\* get_project_root(): PROJECT_ROOT, here the working directory
get_project_root == IF platform = "nt" THEN "C:/proj" ELSE "/tmp/proj"

\* os.path.splitdrive(os.path.abspath(p))[0]
AbsDrive(p) ==
    IF platform = "nt"
    THEN IF p = "D:/x.txt" THEN "D:" ELSE "C:"
    ELSE ""

\* whether os.path.abspath(p) lies under the project root
ResolvesInside(p) ==
    CASE p = "notes.txt" -> TRUE
      [] p = "sub/new.txt" -> TRUE
      [] p = "/etc/passwd" -> FALSE
      [] p = "D:/x.txt" -> platform = "posix"
      [] OTHER -> FALSE

\* os.path.dirname(p)
dirname(p) ==
    CASE p = "notes.txt" -> ""
      [] p = "sub/new.txt" -> "sub"
      [] p = "/etc/passwd" -> "/etc"
      [] p = "D:/x.txt" -> "D:"
      [] OTHER -> ""

\* os.path.relpath(path, start) raises ValueError only when the two are on
\* different drives; on posix every drive is ""
relpath_raises(p) == AbsDrive(p) # AbsDrive(".")

is_within_project(p) == ~relpath_raises(p)

\* str(n): one token per number (the numbers of the model's runs are small)
IntStr(n) ==
    CASE n = 0 -> "0" [] n = 1 -> "1" [] n = 2 -> "2" [] n = 3 -> "3"
      [] n = 4 -> "4" [] n = 5 -> "5" [] n = 6 -> "6" [] n = 7 -> "7"
      [] n = 8 -> "8" [] n = 9 -> "9" [] OTHER -> "big"

Failure(pieces) == Obj(<<KV("success", Bool(FALSE)), KV("error", Str(pieces))>>)

\* what a tool call yields: its result and the filesystem it leaves
Outcome(result, f, d, log) == [result |-> result, files |-> f, dirs |-> d, log |-> log]

\* a str naming one of the model's paths (the only path strings the inputs hold)
IsPathStr(x) == x.t = "str" /\ Len(x.v) = 1 /\ x.v[1] \in Paths

read_file(file_path) ==
    IF ~IsPathStr(file_path) THEN Outcome(Failure(<<"TypeError">>), files, dirs, <<>>)
    ELSE LET p == file_path.v[1] IN
         IF files[p].exists
         THEN Outcome(Obj(<<KV("success", Bool(TRUE)),
                            KV("content", Str(files[p].data)),
                            KV("file", file_path)>>), files, dirs, <<>>)
         ELSE Outcome(Failure(<<"No such file or directory: ", p>>), files, dirs, <<>>)

\* open(p, 'w'): the file is created or truncated, unless the open fails
OpenWrite(p, d, log) ==
    LET log2 == Append(log, [op |-> "open_w", path |-> p, target |-> p]) IN
    IF ~files[p].writable
    THEN [ok |-> FALSE, err |-> <<"Permission denied: ", p>>,
          files |-> files, dirs |-> d, log |-> log2]
    ELSE [ok |-> TRUE, err |-> <<>>,
          files |-> [files EXCEPT ![p] = File(<<>>, TRUE)], dirs |-> d, log |-> log2]

\* f.write(data) on a file opened by OpenWrite; data that is no str raises
WriteData(o, p, data, okResult) ==
    IF ~o.ok THEN Outcome(Failure(o.err), o.files, o.dirs, o.log)
    ELSE IF data.t # "str" THEN Outcome(Failure(<<"TypeError">>), o.files, o.dirs, o.log)
    ELSE Outcome(okResult, [o.files EXCEPT ![p] = File(data.v, TRUE)], o.dirs, o.log)

write_file(file_path, content) ==
    IF ~IsPathStr(file_path) THEN Outcome(Failure(<<"TypeError">>), files, dirs, <<>>)
    ELSE LET p == file_path.v[1] IN
         IF ~is_within_project(p)
         THEN Outcome(Failure(<<"Cannot write file outside project directory. File: ",
                                p, ", Project root: ", get_project_root>>),
                      files, dirs, <<>>)
         ELSE LET dir_path == dirname(p)
                  log1 == IF dir_path # ""
                          THEN <<[op |-> "makedirs", path |-> dir_path, target |-> p]>>
                          ELSE <<>>
                  dirs1 == IF dir_path # "" THEN dirs \cup {dir_path} ELSE dirs
              IN  WriteData(OpenWrite(p, dirs1, log1), p, content,
                            Obj(<<KV("success", Bool(TRUE)),
                                  KV("message", Str(<<"Written to ", p>>)),
                                  KV("bytes", Num(IF content.t = "str"
                                                  THEN Len(content.v) ELSE 0))>>))

\* str.count(sub): the non-overlapping occurrences, from the left
StartsWithAt(text, sub, i) ==
    /\ i + Len(sub) - 1 <= Len(text)
    /\ \A k \in 1..Len(sub) : text[i + k - 1] = sub[k]

RECURSIVE CountFrom(_, _, _)
CountFrom(text, sub, i) ==
    IF i + Len(sub) - 1 > Len(text) THEN 0
    ELSE IF StartsWithAt(text, sub, i) THEN 1 + CountFrom(text, sub, i + Len(sub))
    ELSE CountFrom(text, sub, i + 1)

count_Found(text, sub) ==
    IF \E i \in 1..Len(text) : StartsWithAt(text, sub, i) THEN 1 ELSE 0

count(text, sub) == IF sub = <<>> THEN Len(text) + 1 ELSE CountFrom(text, sub, 1)

\* str.replace(old, new, n) for a non-empty old; n < 0 replaces all
RECURSIVE ReplaceFrom(_, _, _, _, _)
ReplaceFrom(text, old, new, i, n) ==
    IF i > Len(text) THEN <<>>
    ELSE IF n # 0 /\ StartsWithAt(text, old, i)
    THEN new \o ReplaceFrom(text, old, new, i + Len(old), n - 1)
    ELSE <<text[i]>> \o ReplaceFrom(text, old, new, i + 1, n)

\* str.replace with an empty old: new goes before each piece and at the end
RECURSIVE Interleave(_, _, _, _)
Interleave(text, new, i, n) ==
    IF n = 0 THEN Slice(text, i, Len(text))
    ELSE IF i > Len(text) THEN new
    ELSE new \o <<text[i]>> \o Interleave(text, new, i + 1, n - 1)

replace(text, old, new, n) ==
    IF old = <<>> THEN Interleave(text, new, 1, n) ELSE ReplaceFrom(text, old, new, 1, n)

\* bool(x) of a JSON value
Truthy(x) ==
    CASE x.t = "bool" -> x.v
      [] x.t = "num" -> x.v # 0
      [] x.t = "null" -> FALSE
      [] OTHER -> x.v # <<>>

edit_file(file_path, old_string, new_string, replace_all) ==
    IF ~IsPathStr(file_path) THEN Outcome(Failure(<<"TypeError">>), files, dirs, <<>>)
    ELSE LET p == file_path.v[1] IN
         IF ~is_within_project(p)
         THEN Outcome(Failure(<<"Cannot edit file outside project directory. File: ",
                                p, ", Project root: ", get_project_root>>),
                      files, dirs, <<>>)
         ELSE IF ~files[p].exists
         THEN Outcome(Failure(<<"No such file or directory: ", p>>), files, dirs, <<>>)
         ELSE IF old_string.t # "str"
         THEN Outcome(Failure(<<"TypeError">>), files, dirs, <<>>)
         ELSE LET content == files[p].data
                  n == count(content, old_string.v)
              IN  IF n = 0
                  THEN Outcome(Failure(<<"old_string not found in file">>), files, dirs, <<>>)
                  ELSE IF n > 1 /\ ~Truthy(replace_all)
                  THEN Outcome(Failure(<<"old_string found ", IntStr(n), " times, use replace_all=true">>),
                               files, dirs, <<>>)
                  ELSE IF new_string.t # "str"
                  THEN Outcome(Failure(<<"TypeError">>), files, dirs, <<>>)
                  ELSE LET new_content ==
                               IF Truthy(replace_all)
                               THEN replace(content, old_string.v, new_string.v, -1)
                               ELSE replace(content, old_string.v, new_string.v, 1)
                       IN  WriteData(OpenWrite(p, dirs, <<>>), p, Str(new_content),
                                     Obj(<<KV("success", Bool(TRUE)),
                                           KV("message",
                                              Str(<<"Replaced ", IntStr(n), " occurrence(s) in ", p>>))>>))

\* the files of the project root directory, in directory order
RootListing ==
    (IF files["notes.txt"].exists
     THEN <<Obj(<<KV("name", S("notes.txt")), KV("path", S("./notes.txt")),
                 KV("is_dir", Bool(FALSE))>>)>>
     ELSE <<>>)
    \o
    (IF "sub" \in dirs
     THEN <<Obj(<<KV("name", S("sub")), KV("path", S("./sub")),
                 KV("is_dir", Bool(TRUE))>>)>>
     ELSE <<>>)

list_files(path) ==
    IF path = S(".")
    THEN Outcome(Obj(<<KV("success", Bool(TRUE)), KV("files", Arr(RootListing))>>),
                 files, dirs, <<>>)
    ELSE IF path.t = "str"
    THEN Outcome(Failure(<<"No such file or directory: ">> \o path.v), files, dirs, <<>>)
    ELSE Outcome(Failure(<<"TypeError">>), files, dirs, <<>>)

\* glob.glob(os.path.join(path, pattern)): "*" matches every entry of path
glob_search(pattern, path) ==
    IF pattern.t # "str" \/ path.t # "str"
    THEN Outcome(Failure(<<"TypeError">>), files, dirs, <<>>)
    ELSE LET matches ==
                 IF path # S(".") THEN <<>>
                 ELSE IF pattern = S("*")
                 THEN (IF files["notes.txt"].exists THEN <<S("./notes.txt")>> ELSE <<>>)
                      \o (IF "sub" \in dirs THEN <<S("./sub")>> ELSE <<>>)
                 ELSE IF IsPathStr(pattern) /\ files[pattern.v[1]].exists
                         /\ ResolvesInside(pattern.v[1])
                 THEN <<Str(<<"./">> \o pattern.v)>>
                 ELSE <<>>
         IN  Outcome(Obj(<<KV("success", Bool(TRUE)), KV("files", Arr(matches)),
                           KV("count", Num(Len(matches)))>>), files, dirs, <<>>)

\* re.compile(pattern) fails on an unbalanced bracket; a literal pattern is
\* searched in the one line of each file under path
grep_search(pattern, path, include) ==
    IF pattern.t # "str" \/ path.t # "str" \/ include.t # "str"
    THEN Outcome(Failure(<<"TypeError">>), files, dirs, <<>>)
    ELSE IF pattern.v = <<"[">>
    THEN Outcome(Failure(<<"unterminated character set at position 0">>), files, dirs, <<>>)
    ELSE LET hit == /\ path = S(".")
                    /\ include = S("*")
                    /\ files["notes.txt"].exists
                    /\ count(files["notes.txt"].data, pattern.v) > 0
             results ==
                 IF hit
                 THEN <<Obj(<<KV("file", S("./notes.txt")), KV("line", Num(1)),
                              KV("content", Str(strip(files["notes.txt"].data)))>>)>>
                 ELSE <<>>
         IN  Outcome(Obj(<<KV("success", Bool(TRUE)), KV("results", Arr(results)),
                           KV("count", Num(Len(results)))>>), files, dirs, <<>>)

\* what the shell does with a command is the environment's choice
BashOutcomes == {"exit0", "exit1", "timeout"}

bash_command(command, timeout, env) ==
    IF command.t # "str" \/ timeout.t # "num"
    THEN Outcome(Failure(<<"TypeError">>), files, dirs, <<>>)
    ELSE IF env = "timeout"
    THEN Outcome(Failure(<<"Command timed out">>), files, dirs, <<>>)
    ELSE Outcome(Obj(<<KV("success", Bool(env = "exit0")),
                       KV("exit_code", Num(IF env = "exit0" THEN 0 ELSE 1)),
                       KV("stdout", Str(<<>>)),
                       KV("stderr", Str(<<>>))>>), files, dirs, <<>>)

----------------------------------------------------------------------------
(* ToolRegistry and BaseAgent._execute_tool *)

\* ToolRegistry._register_defaults: the registered names
_register_defaults == {"read", "write", "edit", "glob", "grep", "bash", "list_files"}

\* the signature of each registered function: required parameters, and the
\* parameters that have a default
Required(name) ==
    CASE name = "read" -> {"file_path"}
      [] name = "write" -> {"file_path", "content"}
      [] name = "edit" -> {"file_path", "old_string", "new_string"}
      [] name = "glob" -> {"pattern"}
      [] name = "grep" -> {"pattern"}
      [] name = "bash" -> {"command"}
      [] name = "list_files" -> {}

Defaults(name) ==
    CASE name = "edit" -> <<KV("replace_all", Bool(FALSE))>>
      [] name = "glob" -> <<KV("path", S("."))>>
      [] name = "grep" -> <<KV("path", S(".")), KV("include", S("*"))>>
      [] name = "bash" -> <<KV("timeout", Num(120000))>>
      [] name = "list_files" -> <<KV("path", S("."))>>
      [] OTHER -> <<>>

Keys(pairs) == {pairs[i].k : i \in 1..Len(pairs)}

\* ToolRegistry.get(name): dict.get raises TypeError on an unhashable key
\* (a list or a dict); any other key is looked up
ToolRegistry_get(name) ==
    IF name.t \in {"arr", "obj"} THEN [raises |-> TRUE, func |-> "None"]
    ELSE IF name.t = "str" /\ Len(name.v) = 1 /\ name.v[1] \in _register_defaults
    THEN [raises |-> FALSE, func |-> name.v[1]]
    ELSE [raises |-> FALSE, func |-> "None"]

\* tool_func(**args) can be called: args is a mapping that names every
\* required parameter and no unknown one
Binds(func, args) ==
    /\ IsDict(args)
    /\ \A r \in Required(func) : <<r>> \in Keys(args.v)
    /\ \A key \in Keys(args.v) :
          key \in {<<r>> : r \in Required(func)} \cup Keys(Defaults(func))

\* the value bound to parameter q
Arg(func, args, q) == DictGet(args.v, <<q>>, DictGet(Defaults(func), <<q>>, Null))

\* tool_func(**args) for a call that binds
CallTool(func, args, env) ==
    CASE func = "read" -> read_file(Arg(func, args, "file_path"))
      [] func = "write" -> write_file(Arg(func, args, "file_path"), Arg(func, args, "content"))
      [] func = "edit" -> edit_file(Arg(func, args, "file_path"), Arg(func, args, "old_string"),
                                    Arg(func, args, "new_string"), Arg(func, args, "replace_all"))
      [] func = "glob" -> glob_search(Arg(func, args, "pattern"), Arg(func, args, "path"))
      [] func = "grep" -> grep_search(Arg(func, args, "pattern"), Arg(func, args, "path"),
                                      Arg(func, args, "include"))
      [] func = "bash" -> bash_command(Arg(func, args, "command"), Arg(func, args, "timeout"), env)
      [] func = "list_files" -> list_files(Arg(func, args, "path"))

NameText_Blank(name) == <<>>

\* str(tool_name) inside the f-string
NameText(name) == IF name.t = "str" THEN name.v ELSE <<"<", name.t, ">">>

\* BaseAgent._execute_tool; raises = TRUE when the exception of
\* self.tools.get leaves the method
_execute_tool(tool_name, args, env) ==
    LET tool_func == ToolRegistry_get(tool_name) IN
    IF tool_func.raises
    THEN [raises |-> TRUE, out |-> Outcome(Null, files, dirs, <<>>)]
    ELSE IF tool_func.func = "None"
    THEN [raises |-> FALSE,
          out |-> Outcome(Failure(<<"Unknown tool: ">> \o NameText(tool_name)),
                          files, dirs, <<>>)]
    ELSE IF ~Binds(tool_func.func, args)
    THEN [raises |-> FALSE,
          out |-> Outcome(Failure(<<"Tool execution error: ", "TypeError">>),
                          files, dirs, <<>>)]
    ELSE [raises |-> FALSE, out |-> CallTool(tool_func.func, args, env)]

----------------------------------------------------------------------------
(* json.dumps(value, indent=2) over tokens *)

RECURSIVE EscapePieces(_)
EscapePieces(pieces) ==
    IF pieces = <<>> THEN <<>>
    ELSE (CASE Head(pieces) = NL -> <<ESC_NL>>
            [] Head(pieces) = QUOTE -> <<ESC_QUOTE>>
            [] OTHER -> <<Head(pieces)>>) \o EscapePieces(Tail(pieces))

DumpStr(pieces) == <<QUOTE>> \o EscapePieces(pieces) \o <<QUOTE>>

RECURSIVE json_dumps(_)
RECURSIVE DumpItems(_, _)
RECURSIVE DumpPairs(_, _)

json_dumps_Repr(x) ==
    CASE x.t = "str" -> DumpStr(x.v)
      [] x.t = "num" -> <<IntStr(x.v)>>
      [] x.t = "bool" -> IF x.v THEN <<"True">> ELSE <<"False">>
      [] x.t = "null" -> <<"None">>
      [] x.t = "arr" -> IF x.v = <<>> THEN <<"[", "]">>
                        ELSE <<"[", NL>> \o DumpItems(x.v, 1) \o <<NL, "]">>
      [] x.t = "obj" -> IF x.v = <<>> THEN <<"{", "}">>
                        ELSE <<"{", NL>> \o DumpPairs(x.v, 1) \o <<NL, "}">>

json_dumps(x) ==
    CASE x.t = "str" -> DumpStr(x.v)
      [] x.t = "num" -> <<IntStr(x.v)>>
      [] x.t = "bool" -> IF x.v THEN <<"true">> ELSE <<"false">>
      [] x.t = "null" -> <<"null">>
      [] x.t = "arr" -> IF x.v = <<>> THEN <<"[", "]">>
                        ELSE <<"[", NL>> \o DumpItems(x.v, 1) \o <<NL, "]">>
      [] x.t = "obj" -> IF x.v = <<>> THEN <<"{", "}">>
                        ELSE <<"{", NL>> \o DumpPairs(x.v, 1) \o <<NL, "}">>

DumpItems(items, i) ==
    IF i = Len(items) THEN <<SP>> \o json_dumps(items[i])
    ELSE <<SP>> \o json_dumps(items[i]) \o <<",", NL>> \o DumpItems(items, i + 1)

DumpPairs(pairs, i) ==
    LET one == <<SP>> \o DumpStr(pairs[i].k) \o <<":", SP>> \o json_dumps(pairs[i].x) IN
    IF i = Len(pairs) THEN one
    ELSE one \o <<",", NL>> \o DumpPairs(pairs, i + 1)


----------------------------------------------------------------------------
(* BaseAgent: the agent loop *)

VARIABLES
    provider,              \* self.provider.name
    max_iterations,        \* self.max_iterations
    retry_on_error,        \* self.retry_on_error
    conversation_history,  \* self.conversation_history
    pc,                    \* where run() is
    iteration,
    final_response,
    last_content,
    consecutive_errors,
    tool_calls,            \* the calls parsed from the latest content
    tool_results,          \* the triples collected so far in this iteration
    result,                \* what run() returned
    chat_log,              \* one entry per provider.chat call: its outcome
    exec_log,              \* the tool named by each call executed, in order
    sent,                  \* the messages passed to the latest provider.chat call
    sleeps                 \* the time.sleep durations, in order

agentvars == <<provider, max_iterations, retry_on_error, conversation_history, pc,
               iteration, final_response, last_content, consecutive_errors,
               tool_calls, tool_results, result, chat_log, exec_log, sent, sleeps>>

\* GLMProvider._make_request and the adapters' chat
VARIABLES
    attempt,               \* the index of the for loop over range(max_retries)
    last_error,            \* _make_request's last_error
    http_log,              \* what each urlopen call met, in order
    chat_outcome           \* what chat() returned or raised

netvars == <<attempt, last_error, http_log, chat_outcome>>

\* the process environment and the provider factory
VARIABLES
    environ,               \* os.environ: the variables Config reads
    factory                \* what get_provider() returned or raised

cfgvars == <<environ, factory>>

vars == <<agentvars, fsvars, netvars, cfgvars>>

\* bounds of the model
MaxIterations == 3
MaxRetry == 2
MaxFsLog == 4

\* PROVIDER_REGISTRY's adapters by their name attribute
Providers == {"glm", "claude", "codex", "kimmy_k2"}

default_model(name) ==
    CASE name = "glm" -> "glm-4.7"
      [] name = "claude" -> "claude-sonnet-4-20250514"
      [] name = "codex" -> "gpt-4"
      [] name = "kimmy_k2" -> "kimmy-k2"

\* the failures an adapter's chat reports as ProviderError
Transport == [kind |-> "transport", code |-> 0]
Http(code) == [kind |-> "http", code |-> code]
InvalidJson == [kind |-> "invalid_json", code |-> 0]

ProviderFailures == {Transport, Http(401), InvalidJson}

\* the adapter layer's classification: transport failures, server errors
\* and rate limiting are transient; everything else is fatal
Retryable(e) ==
    \/ e.kind = "transport"
    \/ e.kind = "http" /\ (e.code >= 500 \/ e.code = 429)

Message(role, content) == [role |-> role, content |-> content]

Response(content) == [content |-> content, raw |-> "raw", model |-> default_model(provider)]

NoResponse == [none |-> TRUE]
NoResult == [none |-> TRUE]

\* the prompts a caller passes to run()
Prompts == {<<"do", SP, "x">>}
SystemPrompts == {<<>>, <<"be", SP, "done">>}

\* the texts the model answers with
PlainText == <<"done">>
BashBlock == <<"ls", NL, FENCE, "bash", NL, "ls", SP, "-la", NL, FENCE>>
WriteOutside ==
    <<FENCE, "tool", NL,
      "{", QUOTE, "tool", QUOTE, ":", SP, QUOTE, "write", QUOTE, ",", SP,
      QUOTE, "args", QUOTE, ":", SP,
      "{", QUOTE, "file_path", QUOTE, ":", SP, QUOTE, "/etc/passwd", QUOTE, ",", SP,
      QUOTE, "content", QUOTE, ":", SP, QUOTE, "x", QUOTE, "}", "}",
      NL, FENCE>>
ReadThenUnknown ==
    <<TOOL_OPEN, SP, "read", "]", SP, ARGS_OPEN, SP,
      "{", QUOTE, "file_path", QUOTE, ":", SP, QUOTE, "notes.txt", QUOTE, "}", "]", NL,
      TOOL_OPEN, "fly", "]", ARGS_OPEN, "{", "}", "]">>

\* two fenced calls: an unregistered tool, then read with args that is a list
FaultyCalls ==
    <<FENCE, "tool", NL, "{", QUOTE, "tool", QUOTE, ":", SP, QUOTE, "fly", QUOTE, "}",
      NL, FENCE, NL,
      FENCE, "tool", NL, "{", QUOTE, "tool", QUOTE, ":", SP, QUOTE, "read", QUOTE, ",", SP,
      QUOTE, "args", QUOTE, ":", SP, "[", "]", "}", NL, FENCE>>
\* a fenced call whose tool value is a JSON array
UnhashableName ==
    <<FENCE, "tool", NL, "{", QUOTE, "tool", QUOTE, ":", SP, "[", QUOTE, "read", QUOTE, "]", "}",
      NL, FENCE>>

Contents == {PlainText, BashBlock, WriteOutside, ReadThenUnknown, FaultyCalls,
             UnhashableName}


NoError == [kind |-> "none", code |-> 0]

\* the filesystem a process starts on: /etc/passwd is writable when the
\* process runs as root
FsInit(platforms, writables) ==
    /\ platform \in platforms
    /\ \E w \in writables :
          files = [p \in Paths |->
                     CASE p = "notes.txt" -> File(<<"a", SP, "a">>, TRUE)
                       [] p = "/etc/passwd" -> File(<<"root">>, w)
                       [] OTHER -> Absent]
    /\ dirs = {"/etc"}
    /\ fs_log = <<>>

\* BaseAgent.__init__, for the configurations in configs
AgentInit(providers, iterations, retries) ==
    /\ provider \in providers
    /\ max_iterations \in iterations
    /\ retry_on_error \in retries
    /\ conversation_history = <<>>
    /\ pc = "init"
    /\ iteration = 0
    /\ final_response = NoResponse
    /\ last_content = <<>>
    /\ consecutive_errors = 0
    /\ tool_calls = <<>>
    /\ tool_results = <<>>
    /\ result = NoResult
    /\ chat_log = <<>>
    /\ exec_log = <<>>
    /\ sent = <<>>
    /\ sleeps = <<>>

\* an error text: which message, with the status code and the text it embeds
ErrText(what, code, text) == [what |-> what, code |-> code, text |-> text]

\* last_error = None
NoLastError == ErrText("None", 0, "")

\* chat() has not returned
Pending == [kind |-> "pending", msg |-> NoLastError, value |-> Null]

\* no request is in progress
NetInit ==
    /\ attempt = 0
    /\ last_error = NoLastError
    /\ http_log = <<>>
    /\ chat_outcome = Pending

\* None, and a str, for the Optional[str] values of the configuration
None == {}
Some(text) == {text}

\* get_provider() has not been called
NotCalled == [kind |-> "pending"]

\* the environment variables Config reads
EnvNames ==
    {"PROVIDER", "MAX_ITERATIONS", "OPENCODE_API_KEY", "ANTHROPIC_API_KEY",
     "OPENAI_API_KEY", "KIMMY_K2_API_KEY", "OPENCODE_MODEL"}

\* no environment variable is set and no provider was asked for
CfgInit ==
    /\ environ = [name \in EnvNames |-> None]
    /\ factory = NotCalled

Init ==
    /\ AgentInit(Providers, 0..MaxIterations, 0..MaxRetry)
    /\ FsInit({"posix"}, {TRUE})
    /\ NetInit
    /\ CfgInit

\* the messages run() starts from
InitialMessages(prompt, system_prompt) ==
    (IF system_prompt # <<>> THEN <<Message("system", system_prompt)>> ELSE <<>>)
    \o <<Message("user", prompt)>>

\* a run start that keeps what the agent already holds
HistoryAtStart_Extends(history, messages) == history \o messages

\* self.conversation_history = list(messages): the agent's history after
\* the assignment, given the history before it
HistoryAtStart(history, messages) == messages

\* run(): the messages are built and the locals set, up to the while loop
RunStart ==
    /\ pc = "init"
    /\ \E prompt \in Prompts, system_prompt \in SystemPrompts :
          conversation_history' =
              HistoryAtStart(conversation_history, InitialMessages(prompt, system_prompt))
    /\ iteration' = 0
    /\ final_response' = NoResponse
    /\ last_content' = <<>>
    /\ consecutive_errors' = 0
    /\ pc' = "loop"
    /\ UNCHANGED <<provider, max_iterations, retry_on_error, tool_calls, tool_results,
                   result, chat_log, exec_log, sent, sleeps, fsvars, netvars, cfgvars>>

\* a while test that lets one more iteration through
LoopContinues_Inclusive == iteration <= max_iterations

\* the while test
LoopContinues == iteration < max_iterations

\* the while test holds: iteration += 1 and provider.chat is called with
\* the conversation so far
CallProvider ==
    /\ pc = "loop"
    /\ LoopContinues
    /\ iteration' = iteration + 1
    /\ sent' = conversation_history
    /\ pc' = "AWAITING_PROVIDER"
    /\ UNCHANGED <<provider, max_iterations, retry_on_error, conversation_history,
                   final_response, last_content, consecutive_errors, tool_calls,
                   tool_results, result, chat_log, exec_log, sleeps, fsvars, netvars, cfgvars>>

\* the code after the loop: what run() returns
ReturnAfterLoop ==
    IF final_response = NoResponse
    THEN [error |-> TRUE, message |-> "No response from provider"]
    ELSE final_response

\* the while test fails: the iteration budget is used up
LoopExit ==
    /\ pc = "loop"
    /\ ~LoopContinues
    /\ result' = ReturnAfterLoop
    /\ pc' = "EXHAUSTED"
    /\ UNCHANGED <<provider, max_iterations, retry_on_error, conversation_history,
                   iteration, final_response, last_content, consecutive_errors,
                   tool_calls, tool_results, chat_log, exec_log, sent, sleeps, fsvars,
                   netvars, cfgvars>>

CounterAfterSuccess_Kept(errors) == errors

\* consecutive_errors after a successful call
CounterAfterSuccess(errors) == 0

AppendAssistant_Doubled(history, content) ==
    history \o <<Message("assistant", content), Message("assistant", content)>>

LoopBreaks_Always(calls) == TRUE

\* `if not tool_calls: break`
LoopBreaks(calls) == calls = <<>>

AppendAssistant_Overwrites(history, content) == <<Message("assistant", content)>>

\* self.conversation_history.append(assistant_message)
AppendAssistant(history, content) == Append(history, Message("assistant", content))

\* provider.chat returns a response: the assistant message is appended and
\* the content parsed; with no call the loop breaks and run returns
ChatReturns ==
    /\ pc = "AWAITING_PROVIDER"
    /\ provider # "kimmy_k2"
    /\ \E content \in Contents :
          LET response == Response(content)
              calls == _parse_tool_calls(content)
          IN  /\ consecutive_errors' = CounterAfterSuccess(consecutive_errors)
              /\ last_content' = content
              /\ final_response' = response
              /\ conversation_history' = AppendAssistant(conversation_history, content)
              /\ tool_calls' = calls
              /\ tool_results' = <<>>
              /\ chat_log' = Append(chat_log, [ok |-> TRUE, err |-> NoError])
              /\ IF LoopBreaks(calls)
                 THEN /\ pc' = "DONE"
                      /\ result' = response
                 ELSE /\ pc' = "dispatch"
                      /\ UNCHANGED result
    /\ UNCHANGED <<provider, max_iterations, retry_on_error, iteration, exec_log, sent,
                   sleeps, fsvars, netvars, cfgvars>>

FailedResult_NoPartial(n, e) ==
    [error |-> TRUE,
     message |-> [attempts |-> n, error_msg |-> e],
     provider |-> provider,
     partial_content |-> <<>>]

\* the result returned when the retry ceiling is exceeded
FailedResult(n, e) ==
    [error |-> TRUE,
     message |-> [attempts |-> n, error_msg |-> e],
     provider |-> provider,
     partial_content |-> last_content]

RetryExhausted_Never(errors) == FALSE

\* the retry ceiling is exceeded
RetryExhausted(errors) == errors > retry_on_error

Backoff_Fixed(errors) == 2

\* the sleep before the next attempt
Backoff(errors) == 2 * errors

HistoryAfterError_Appends(history, e) ==
    Append(history, Message("user", <<"Provider error">>))

\* the conversation after a failed attempt: the handler appends nothing
HistoryAfterError(history, e) == history

\* provider.chat raises ProviderError
ChatRaises ==
    /\ pc = "AWAITING_PROVIDER"
    /\ provider # "kimmy_k2"
    /\ \E e \in ProviderFailures :
          /\ consecutive_errors' = consecutive_errors + 1
          /\ chat_log' = Append(chat_log, [ok |-> FALSE, err |-> e])
          /\ conversation_history' = HistoryAfterError(conversation_history, e)
          /\ IF RetryExhausted(consecutive_errors + 1)
             THEN /\ result' = FailedResult(consecutive_errors + 1, e)
                  /\ pc' = "FAILED"
                  /\ UNCHANGED sleeps
             ELSE /\ sleeps' = Append(sleeps, Backoff(consecutive_errors + 1))
                  /\ pc' = "loop"
                  /\ UNCHANGED result
    /\ UNCHANGED <<provider, max_iterations, retry_on_error, iteration, final_response,
                   last_content, tool_calls, tool_results, exec_log, sent, fsvars,
                   netvars, cfgvars>>

NotImplemented == [kind |-> "not_implemented", code |-> 0]

ProviderErrorCatches_Anything(e) == TRUE

\* `except ProviderError` matches the exception: NotImplementedError is not
\* a ProviderError
ProviderErrorCatches(e) == e \in ProviderFailures

\* KimmyK2Provider.chat raises NotImplementedError; run() has no handler for
\* it, so it leaves run()
ChatNotImplemented ==
    /\ pc = "AWAITING_PROVIDER"
    /\ provider = "kimmy_k2"
    /\ chat_log' = Append(chat_log, [ok |-> FALSE, err |-> NotImplemented])
    /\ IF ProviderErrorCatches(NotImplemented)
       THEN /\ consecutive_errors' = consecutive_errors + 1
            /\ IF RetryExhausted(consecutive_errors + 1)
               THEN /\ result' = FailedResult(consecutive_errors + 1, NotImplemented)
                    /\ pc' = "FAILED"
                    /\ UNCHANGED sleeps
               ELSE /\ sleeps' = Append(sleeps, Backoff(consecutive_errors + 1))
                    /\ pc' = "loop"
                    /\ UNCHANGED result
       ELSE /\ result' = [exception |-> "NotImplementedError"]
            /\ pc' = "RAISED"
            /\ UNCHANGED <<consecutive_errors, sleeps>>
    /\ UNCHANGED <<provider, max_iterations, retry_on_error, conversation_history,
                   iteration, final_response, last_content,
                   tool_calls, tool_results, exec_log, sent, fsvars, netvars, cfgvars>>

Triple(call, res) == Obj(<<KV("tool", call.tool), KV("args", call.args), KV("result", res)>>)

ResultMessage(results) ==
    Message("user", <<"Tool execution results:", NL>> \o json_dumps(Arr(results)))

NextCall_Reversed(calls, results) == calls[Len(calls) - Len(results)]

\* `for tool_call in tool_calls`: the call the next pass takes
NextCall(calls, results) == calls[Len(results) + 1]

\* one pass of the for loop over tool_calls; after the last call the result
\* message is appended and the while loop continues
ExecuteTool ==
    /\ pc = "dispatch"
    /\ Len(tool_results) < Len(tool_calls)
    /\ \E env \in BashOutcomes :
          LET tool_call == NextCall(tool_calls, tool_results)
              r == _execute_tool(tool_call.tool, tool_call.args, env)
              results == Append(tool_results, Triple(tool_call, r.out.result))
          IN  /\ exec_log' = Append(exec_log, tool_call.tool)
              /\ IF r.raises
                 THEN /\ pc' = "RAISED"
                      /\ result' = [exception |-> "TypeError"]
                      /\ UNCHANGED <<conversation_history, tool_results, fsvars>>
                 ELSE /\ tool_results' = results
                      /\ files' = r.out.files
                      /\ dirs' = r.out.dirs
                      /\ fs_log' = fs_log \o r.out.log
                      /\ UNCHANGED <<platform, result>>
                      /\ IF Len(results) = Len(tool_calls)
                         THEN /\ conversation_history' =
                                     Append(conversation_history, ResultMessage(results))
                              /\ pc' = "loop"
                         ELSE /\ pc' = "dispatch"
                              /\ UNCHANGED conversation_history
    /\ UNCHANGED <<provider, max_iterations, retry_on_error, iteration, final_response,
                   last_content, consecutive_errors, tool_calls, chat_log, sent, sleeps,
                   netvars, cfgvars>>

Next ==
    \/ RunStart
    \/ CallProvider
    \/ LoopExit
    \/ ChatReturns
    \/ ChatRaises
    \/ ChatNotImplemented
    \/ ExecuteTool

Spec == Init /\ [][Next]_vars

----------------------------------------------------------------------------
(* The file tools called directly, on every platform *)

PathArgs == {S(p) : p \in Paths}

WriteCalls ==
    {ToolCall(S("write"), Obj(<<KV("file_path", p), KV("content", S("x"))>>)) :
        p \in PathArgs}

EditCalls ==
    {ToolCall(S("edit"), Obj(<<KV("file_path", p), KV("old_string", S(old)),
                               KV("new_string", S("b"))>>)) :
        p \in PathArgs, old \in {"a", "x"}}
    \cup
    {ToolCall(S("edit"), Obj(<<KV("file_path", p), KV("old_string", S("a")),
                               KV("new_string", S("b")),
                               KV("replace_all", Bool(TRUE))>>)) :
        p \in PathArgs}

ReadCalls == {ToolCall(S("read"), Obj(<<KV("file_path", p)>>)) : p \in PathArgs}

InitTools ==
    /\ AgentInit({"claude"}, {1}, {0})
    /\ FsInit({"posix", "nt"}, BOOLEAN)
    /\ NetInit
    /\ CfgInit

\* a caller runs one tool through the registry; tool_calls and tool_results
\* hold the call and its triple
DirectCall ==
    /\ pc = "init"
    /\ \E call \in WriteCalls \cup EditCalls \cup ReadCalls :
          LET r == _execute_tool(call.tool, call.args, "exit0") IN
          /\ tool_calls' = <<call>>
          /\ tool_results' = <<Triple(call, r.out.result)>>
          /\ exec_log' = <<call.tool>>
          /\ files' = r.out.files
          /\ dirs' = r.out.dirs
          /\ fs_log' = fs_log \o r.out.log
    /\ Len(fs_log) < MaxFsLog
    /\ UNCHANGED <<provider, max_iterations, retry_on_error, conversation_history, pc,
                   iteration, final_response, last_content, consecutive_errors, result,
                   chat_log, sent, sleeps, platform, netvars, cfgvars>>

NextTools == DirectCall

SpecTools == InitTools /\ [][NextTools]_vars

----------------------------------------------------------------------------
(* The provider adapters: GLMProvider._make_request and chat of GLMProvider,
   CodexProvider and ClaudeProvider *)

\* GLMProvider.max_retries and GLMProvider.retry_delay
max_retries == 3
retry_delay == 2

\* what a urlopen call meets
HttpError(code, text) == [kind |-> "http", code |-> code, text |-> text, body |-> <<>>]
TransportError(text) == [kind |-> "transport", code |-> 0, text |-> text, body |-> <<>>]
Body(toks) == [kind |-> "body", code |-> 200, text |-> "", body |-> toks]

\* the bodies a backend answers with
NotJson == <<"<html>">>
JsonNumber == <<"5">>
JsonArray == <<"[", "]">>
NoChoices == <<"{", "}">>
EmptyChoices == <<"{", QUOTE, "choices", QUOTE, ":", SP, "[", "]", "}">>
ChoiceNotObject == <<"{", QUOTE, "choices", QUOTE, ":", SP, "[", "5", "]", "}">>
NullMessage ==
    <<"{", QUOTE, "choices", QUOTE, ":", SP, "[",
      "{", QUOTE, "message", QUOTE, ":", SP, "null", "}", "]", "}">>
GoodChoices ==
    <<"{", QUOTE, "choices", QUOTE, ":", SP, "[",
      "{", QUOTE, "message", QUOTE, ":", SP,
      "{", QUOTE, "content", QUOTE, ":", SP, QUOTE, "hi", QUOTE, "}", "}", "]", "}">>
EmptyContentArray == <<"{", QUOTE, "content", QUOTE, ":", SP, "[", "]", "}">>
BlockNotObject == <<"{", QUOTE, "content", QUOTE, ":", SP, "[", "5", "]", "}">>
GoodBlocks ==
    <<"{", QUOTE, "content", QUOTE, ":", SP, "[",
      "{", QUOTE, "text", QUOTE, ":", SP, QUOTE, "hi", QUOTE, "}", "]", "}">>

Bodies == {NotJson, JsonNumber, JsonArray, NoChoices, EmptyChoices, ChoiceNotObject,
           NullMessage, GoodChoices, EmptyContentArray, BlockNotObject, GoodBlocks}

ErrorBodies == {"overloaded", "busy"}
TransportTexts == {"timed out", "refused"}

NetReplies ==
    {HttpError(c, t) : c \in {500, 429, 401}, t \in ErrorBodies}
    \cup {TransportError(t) : t \in TransportTexts}
    \cup {Body(b) : b \in Bodies}

\* a Python expression's value, or the exception it raises
Val(x) == [exc |-> "none", val |-> x]
Exc(name) == [exc |-> name, val |-> Null]

\* `key in x`
PyIn(key, x) ==
    CASE x.t = "obj" -> Val(Bool(HasKey(x.v, <<key>>)))
      [] x.t = "arr" -> Val(Bool(\E i \in 1..Len(x.v) : x.v[i] = S(key)))
      [] x.t = "str" -> Val(Bool(\E i \in 1..Len(x.v) : StartsWithAt(x.v, <<key>>, i)))
      [] OTHER -> Exc("TypeError")

\* x[key] for a str key, after `key in x` held
PyItem(x, key) ==
    IF x.t = "obj" THEN Val(Lookup(x.v, <<key>>)) ELSE Exc("TypeError")

\* len(x)
PyLen(x) ==
    IF x.t \in {"arr", "obj", "str"} THEN Val(Num(Len(x.v))) ELSE Exc("TypeError")

\* x[0]
PyFirst(x) ==
    CASE x.t = "arr" -> IF x.v = <<>> THEN Exc("IndexError") ELSE Val(x.v[1])
      [] x.t = "str" -> IF x.v = <<>> THEN Exc("IndexError") ELSE Val(Str(<<x.v[1]>>))
      [] x.t = "obj" -> Exc("KeyError")
      [] OTHER -> Exc("TypeError")

\* x.get(key, default)
PyGet(x, key, default) ==
    IF x.t = "obj" THEN Val(DictGet(x.v, <<key>>, default)) ELSE Exc("AttributeError")

HasChoices_KeyOnly(reply_json, key) == PyIn(key, reply_json)

\* `key in result and len(result[key]) > 0`
HasChoices(reply_json, key) ==
    LET present == PyIn(key, reply_json) IN
    IF present.exc # "none" \/ ~present.val.v THEN present
    ELSE LET item == PyItem(reply_json, key) IN
         IF item.exc # "none" THEN item
         ELSE LET n == PyLen(item.val) IN
              IF n.exc # "none" THEN n ELSE Val(Bool(n.val.v > 0))

\* what chat() returned or raised
Returns(value) == [kind |-> "return", msg |-> NoLastError, value |-> value]
Raises(kind, msg) == [kind |-> kind, msg |-> msg, value |-> Null]

\* result[key][0]
FirstOf(reply_json, key) == PyFirst(PyItem(reply_json, key).val)

\* GLMProvider.chat after _make_request returned its result
GlmChatResult(reply_json) ==
    LET has == HasChoices(reply_json, "choices") IN
    IF has.exc # "none" THEN Raises(has.exc, NoLastError)
    ELSE IF ~has.val.v THEN Raises("ProviderError", ErrText("No response from GLM", 0, ""))
    ELSE LET first == FirstOf(reply_json, "choices") IN
         IF first.exc # "none" THEN Raises(first.exc, NoLastError)
         ELSE LET message == PyGet(first.val, "message", Obj(<<>>)) IN
              IF message.exc # "none" THEN Raises(message.exc, NoLastError)
              ELSE LET content == PyGet(message.val, "content", Str(<<>>))
                       reasoning == PyGet(message.val, "reasoning_content", Str(<<>>))
                   IN  IF content.exc # "none" THEN Raises(content.exc, NoLastError)
                       ELSE Returns(Obj(<<KV("content", content.val),
                                          KV("reasoning", reasoning.val),
                                          KV("raw", reply_json),
                                          KV("model", S(default_model("glm")))>>))

\* the body of the try block of CodexProvider.chat and ClaudeProvider.chat
\* once the body is decoded: outer is the key of the list, inner the keys
\* read from its first entry
TryBlockResult(name, reply_json, outer, inner) ==
    LET has == HasChoices(reply_json, outer) IN
    IF has.exc # "none" THEN Raises(has.exc, NoLastError)
    ELSE IF ~has.val.v THEN Raises("ProviderError", ErrText("No response", 0, ""))
    ELSE LET first == FirstOf(reply_json, outer) IN
         IF first.exc # "none" THEN Raises(first.exc, NoLastError)
         ELSE LET message == IF Len(inner) = 2
                             THEN PyGet(first.val, inner[1], Obj(<<>>))
                             ELSE first
              IN  IF message.exc # "none" THEN Raises(message.exc, NoLastError)
                  ELSE LET content == PyGet(message.val, inner[Len(inner)], Str(<<>>)) IN
                       IF content.exc # "none" THEN Raises(content.exc, NoLastError)
                       ELSE Returns(Obj(<<KV("content", content.val),
                                          KV("raw", reply_json),
                                          KV("model", S(default_model(name)))>>))

\* the except clauses of CodexProvider.chat and ClaudeProvider.chat: every
\* exception of the try block, a ProviderError included, reaches the caller
\* as a ProviderError
ExceptClauses(o) ==
    IF o.kind = "return" THEN o
    ELSE Raises("ProviderError", ErrText("request failed", 0, o.kind))

\* CodexProvider.chat and ClaudeProvider.chat for what urlopen met
OneRequestChat(name, reply) ==
    CASE reply.kind = "http" ->
            Raises("ProviderError", ErrText("API error", reply.code, reply.text))
      [] reply.kind = "transport" ->
            Raises("ProviderError", ErrText("request failed", 0, reply.text))
      [] reply.kind = "body" ->
            LET decoded == json_loads(reply.body) IN
            IF ~decoded.ok
            THEN Raises("ProviderError", ErrText("Invalid JSON response", 0, ""))
            ELSE ExceptClauses(
                    IF name = "claude"
                    THEN TryBlockResult(name, decoded.val, "content", <<"text">>)
                    ELSE TryBlockResult(name, decoded.val, "choices",
                                        <<"message", "content">>))

WaitTime_Constant(n) == retry_delay

\* wait_time = self.retry_delay * (2 ** attempt)
WaitTime(n) == retry_delay * (2 ^ n)

LastErrorAfter_First(previous, new) == IF previous = NoLastError THEN new ELSE previous

\* the assignment to last_error in an except clause
LastErrorAfter(previous, new) == new

RetryableStatus_Any(code) == TRUE

\* `e.code >= 500 or e.code == 429`
RetryableStatus(code) == code >= 500 \/ code = 429

InitAdapters ==
    /\ AgentInit({"glm", "codex", "claude"}, {1}, {0})
    /\ FsInit({"posix"}, {TRUE})
    /\ NetInit
    /\ CfgInit

\* one pass of the for loop of GLMProvider._make_request, up to the next
\* urlopen call or to what GLMProvider.chat returns or raises
GlmAttempt ==
    /\ provider = "glm"
    /\ chat_outcome = Pending
    /\ attempt < max_retries
    /\ \E reply \in NetReplies :
          /\ http_log' = Append(http_log, reply)
          /\ CASE reply.kind = "body" ->
                    /\ chat_outcome' =
                          (LET decoded == json_loads(reply.body) IN
                           IF decoded.ok THEN GlmChatResult(decoded.val)
                           ELSE Raises("ProviderError",
                                       ErrText("Invalid JSON response", 0, "")))
                    /\ UNCHANGED <<attempt, last_error, sleeps>>
               [] reply.kind = "http" ->
                    LET text == ErrText("API error", reply.code, reply.text) IN
                    IF RetryableStatus(reply.code)
                    THEN /\ last_error' = LastErrorAfter(last_error, text)
                         /\ IF attempt < max_retries - 1
                            THEN /\ sleeps' = Append(sleeps, WaitTime(attempt))
                                 /\ attempt' = attempt + 1
                                 /\ UNCHANGED chat_outcome
                            ELSE /\ chat_outcome' = Raises("ProviderError", text)
                                 /\ UNCHANGED <<attempt, sleeps>>
                    ELSE /\ chat_outcome' = Raises("ProviderError", text)
                         /\ UNCHANGED <<attempt, last_error, sleeps>>
               [] reply.kind = "transport" ->
                    LET text == LastErrorAfter(last_error, ErrText("str(e)", 0, reply.text)) IN
                    /\ last_error' = text
                    /\ IF attempt < max_retries - 1
                       THEN /\ sleeps' = Append(sleeps, WaitTime(attempt))
                            /\ attempt' = attempt + 1
                            /\ UNCHANGED chat_outcome
                       ELSE /\ chat_outcome' =
                                  Raises("ProviderError",
                                         ErrText("request failed after retries",
                                                 text.code, text.text))
                            /\ UNCHANGED <<attempt, sleeps>>
    /\ UNCHANGED <<provider, max_iterations, retry_on_error, conversation_history, pc,
                   iteration, final_response, last_content, consecutive_errors,
                   tool_calls, tool_results, result, chat_log, exec_log, sent, fsvars,
                   cfgvars>>

\* chat of CodexProvider or ClaudeProvider: one urlopen call
OneRequest ==
    /\ provider \in {"codex", "claude"}
    /\ chat_outcome = Pending
    /\ \E reply \in NetReplies :
          /\ http_log' = Append(http_log, reply)
          /\ chat_outcome' = OneRequestChat(provider, reply)
    /\ UNCHANGED <<provider, max_iterations, retry_on_error, conversation_history, pc,
                   iteration, final_response, last_content, consecutive_errors,
                   tool_calls, tool_results, result, chat_log, exec_log, sent, sleeps,
                   fsvars, attempt, last_error, cfgvars>>

NextAdapters ==
    \/ GlmAttempt
    \/ OneRequest

SpecAdapters == InitAdapters /\ [][NextAdapters]_vars

----------------------------------------------------------------------------
(* _parse_tool_calls applied to contents holding one fenced block *)

\* the bodies of the fenced blocks
FenceBodies ==
    {<<"ls", SP, "-la">>,
     <<"ls", NL, "ls">>,
     <<"true">>,
     <<"5">>,
     <<QUOTE, "ls", QUOTE>>,
     <<"[", "]">>,
     <<"{", "}">>,
     <<"{", "ls">>,
     <<"{", QUOTE, "command", QUOTE, ":", SP, QUOTE, "ls", QUOTE, "}">>,
     <<"{", QUOTE, "tool", QUOTE, ":", SP, QUOTE, "list_files", QUOTE, "}">>,
     <<"{", QUOTE, "tool", QUOTE, ":", SP, QUOTE, "read", QUOTE, ",", SP,
       QUOTE, "args", QUOTE, ":", SP,
       "{", QUOTE, "file_path", QUOTE, ":", SP, QUOTE, "notes.txt", QUOTE, "}", "}">>,
     <<"{", QUOTE, "tool", QUOTE, ":", SP, QUOTE, "read", QUOTE, ",", SP,
       QUOTE, "arguments", QUOTE, ":", SP,
       "{", QUOTE, "file_path", QUOTE, ":", SP, QUOTE, "notes.txt", QUOTE, "}", "}">>}

\* the text around the block
Surroundings == {"bare", "after prose", "before prose"}

\* a content holding one fenced block
Fenced(around, tag, body) ==
    LET block == <<FENCE, tag, NL>> \o body \o <<NL, FENCE>> IN
    CASE around = "bare" -> block
      [] around = "after prose" -> <<"done", SP, "x", NL>> \o block
      [] around = "before prose" -> block \o <<NL, "done">>

InitParse ==
    /\ AgentInit({"claude"}, {1}, {0})
    /\ FsInit({"posix"}, {TRUE})
    /\ NetInit
    /\ CfgInit

\* tool_calls = self._parse_tool_calls(content) for a content of the model
ParseContent ==
    /\ pc = "init"
    /\ \E around \in Surroundings, tag \in FenceTags, body \in FenceBodies :
          /\ last_content' = Fenced(around, tag, body)
          /\ tool_calls' = _parse_tool_calls(Fenced(around, tag, body))
    /\ UNCHANGED <<provider, max_iterations, retry_on_error, conversation_history, pc,
                   iteration, final_response, consecutive_errors, tool_results, result,
                   chat_log, exec_log, sent, sleeps, fsvars, netvars, cfgvars>>

\* the pieces a content is made of: a fenced block or a bracketed directive,
\* with the calls it stands for (none when its JSON is malformed)
NotesArgs == Obj(<<KV("file_path", S("notes.txt"))>>)
NotesArgsText == <<"{", QUOTE, "file_path", QUOTE, ":", SP, QUOTE, "notes.txt", QUOTE, "}">>
PasswdArgsText == <<"{", QUOTE, "file_path", QUOTE, ":", SP, QUOTE, "/etc/passwd", QUOTE, "}">>

Directive(name, args_text) == <<TOOL_OPEN, SP, name, "]", ARGS_OPEN, SP>> \o args_text \o <<"]">>

BothKeysBody ==
    <<"{", QUOTE, "tool", QUOTE, ":", SP, QUOTE, "read", QUOTE, ",", SP,
      QUOTE, "args", QUOTE, ":", SP>> \o NotesArgsText \o
    <<",", SP, QUOTE, "arguments", QUOTE, ":", SP>> \o PasswdArgsText \o <<"}">>

Segment(form, text, calls, closed) ==
    [form |-> form, text |-> text, calls |-> calls, closed |-> closed]

ReadDirective ==
    Segment("bracket", Directive("read", NotesArgsText),
            <<ToolCall(S("read"), NotesArgs)>>, TRUE)
GlobDirective ==
    Segment("bracket",
            Directive("glob", <<"{", QUOTE, "pattern", QUOTE, ":", SP, QUOTE, "x", QUOTE, "}">>),
            <<ToolCall(S("glob"), Obj(<<KV("pattern", S("x"))>>))>>, TRUE)
\* [TOOL: read][ARGS: {not valid}]
BadJsonDirective ==
    Segment("bracket", Directive("read", <<"{", "not", SP, "valid", "}">>), <<>>, TRUE)
\* [TOOL: read][ARGS: {not valid]
UnclosedDirective ==
    Segment("bracket", Directive("read", <<"{", "not", SP, "valid">>), <<>>, FALSE)
BashFence ==
    Segment("fenced", Fenced("bare", "bash", <<"ls", SP, "-la">>),
            <<ToolCall(S("bash"), Obj(<<KV("command", Str(<<"ls", SP, "-la">>))>>))>>, TRUE)
ToolFence ==
    Segment("fenced",
            Fenced("bare", "tool",
                   <<"{", QUOTE, "tool", QUOTE, ":", SP, QUOTE, "list_files", QUOTE, "}">>),
            <<ToolCall(S("list_files"), Obj(<<>>))>>, TRUE)
BothKeysFence ==
    Segment("fenced", Fenced("bare", "tool", BothKeysBody),
            <<ToolCall(S("read"), NotesArgs)>>, TRUE)

\* the pieces that are mixed
Segments == {ReadDirective, GlobDirective, BadJsonDirective, UnclosedDirective,
             BashFence, ToolFence}

\* the longest content is made of MaxSegments pieces
MaxSegments == 3

SegmentLists == UNION {[1..n -> Segments] : n \in 1..MaxSegments} \cup {<<BothKeysFence>>}

\* the pieces, one per line
RECURSIVE Join(_)
Join(segs) ==
    IF Len(segs) = 1 THEN segs[1].text
    ELSE segs[1].text \o <<NL>> \o Join(Tail(segs))

\* tool_calls = self._parse_tool_calls(content) for the first content of a
\* run, made of pieces
ParseSegments ==
    /\ pc = "init"
    /\ last_content = <<>>
    /\ \E segs \in SegmentLists :
          /\ last_content' = Join(segs)
          /\ tool_calls' = _parse_tool_calls(Join(segs))
    /\ UNCHANGED <<provider, max_iterations, retry_on_error, conversation_history, pc,
                   iteration, final_response, consecutive_errors, tool_results, result,
                   chat_log, exec_log, sent, sleeps, fsvars, netvars, cfgvars>>

NextParse ==
    \/ ParseContent
    \/ ParseSegments

SpecParse == InitParse /\ [][NextParse]_vars

----------------------------------------------------------------------------
(* Properties *)

Last(seq) == seq[Len(seq)]

IsPrefix(a, b) == Len(a) <= Len(b) /\ SubSeq(b, 1, Len(a)) = a

Returned == pc \in {"DONE", "FAILED", "EXHAUSTED"}

\* every provider.chat call so far raised ProviderError
EveryCallRaised ==
    \A i \in 1..Len(chat_log) : ~chat_log[i].ok /\ chat_log[i].err \in ProviderFailures

\* the failures at the end of the log, back to the latest success
RECURSIVE TrailingFailures(_)
TrailingFailures(log) ==
    IF log = <<>> \/ Last(log).ok THEN 0
    ELSE 1 + TrailingFailures(SubSeq(log, 1, Len(log) - 1))

Failures(log) == Cardinality({i \in 1..Len(log) : ~log[i].ok})

\* the content of the latest assistant message, empty when there is none
RECURSIVE LastAssistantContent(_)
LastAssistantContent(history) ==
    IF history = <<>> THEN <<>>
    ELSE IF Last(history).role = "assistant" THEN Last(history).content
    ELSE LastAssistantContent(SubSeq(history, 1, Len(history) - 1))

\* the content of the first assistant message, empty when there is none
RECURSIVE FirstAssistantContent(_)
FirstAssistantContent(history) ==
    IF history = <<>> THEN <<>>
    ELSE IF Head(history).role = "assistant" THEN Head(history).content
    ELSE FirstAssistantContent(Tail(history))

\* the text holds a fence with a recognized tag or a bracketed directive
HasMarker(content) ==
    \E i \in 1..Len(content) :
        \/ content[i] = TOOL_OPEN
        \/ content[i] = FENCE /\ i < Len(content) /\ content[i + 1] \in FenceTags

\* C1: when provider.chat raises ProviderError on every call of a run with
\* max_iterations >= 1, run makes exactly retry_on_error + 1 calls and
\* returns the FAILED result (error: True).
C1_RetryCeiling ==
    (Returned /\ max_iterations >= 1 /\ EveryCallRaised)
        => /\ Len(chat_log) = retry_on_error + 1
           /\ pc = "FAILED"
           /\ result.error

\* C2: within a run the conversation is append-only: once the initial
\* messages are set, every step leaves conversation_history unchanged or
\* appends to its end.
C2_AppendOnly ==
    [][pc # "init" => IsPrefix(conversation_history, conversation_history')]_vars

C2_Witness ==
    /\ pc = "loop"
    /\ Len(conversation_history) >= 5
    /\ conversation_history[1].role = "system"

\* C3: when run stops because the iteration count reached max_iterations
\* (with a last Response to return), the value it returns differs from the
\* value a DONE run returns with the same last Response, and is no error
\* result.
C3_BudgetSignal ==
    (pc = "EXHAUSTED" /\ final_response # NoResponse)
        => /\ result # final_response
           /\ "error" \notin DOMAIN result

\* C4: a fatal provider failure is never retried: once provider.chat raised
\* a non-retryable ProviderError it was the last call of the run, and the
\* run is FAILED.
C4_FatalNotRetried ==
    \A i \in 1..Len(chat_log) :
        (~chat_log[i].ok /\ chat_log[i].err \in ProviderFailures
            /\ ~Retryable(chat_log[i].err))
        => (i = Len(chat_log) /\ pc = "FAILED")

\* the error text names the piece
Names(error, piece) == \E i \in 1..Len(error.v) : error.v[i] = piece

\* C5: write and edit called with a path that resolves outside the project
\* root return success = false naming the path and the root, and no
\* mutating filesystem call is ever made for such a path.
C5_PathConfinement ==
    /\ \A i \in 1..Len(fs_log) : ResolvesInside(fs_log[i].target)
    /\ \A i \in 1..Len(tool_calls) :
          LET call == tool_calls[i]
              p == Lookup(call.args.v, <<"file_path">>).v[1]
          IN  (i <= Len(tool_results)
                 /\ call.tool \in {S("write"), S("edit")}
                 /\ IsDict(call.args)
                 /\ HasKey(call.args.v, <<"file_path">>)
                 /\ ~ResolvesInside(p))
              => LET res == Lookup(tool_results[i].v, <<"result">>).v IN
                 /\ Lookup(res, <<"success">>) = Bool(FALSE)
                 /\ Names(Lookup(res, <<"error">>), p)
                 /\ Names(Lookup(res, <<"error">>), get_project_root)

\* C6: if the first provider call succeeds with content holding no
\* tool-call marker, run is DONE after exactly one provider.chat call, has
\* executed no tool, and has returned that Response.
C6_DoneAfterOneCall ==
    (chat_log # <<>> /\ chat_log[1].ok
        /\ ~HasMarker(FirstAssistantContent(conversation_history)))
    => /\ pc = "DONE"
       /\ Len(chat_log) = 1
       /\ exec_log = <<>>
       /\ fs_log = <<>>
       /\ result = final_response
       /\ result.content = FirstAssistantContent(conversation_history)
       /\ Last(conversation_history).role = "assistant"

C6_Witness ==
    /\ pc = "DONE"
    /\ Len(chat_log) = 1
    /\ ~HasMarker(result.content)

\* C7: a failed attempt that is retried consumes no iteration: after a
\* failure below the retry ceiling the while test holds, so another
\* provider.chat call follows.
C7_FailedAttemptFree ==
    (pc = "loop" /\ chat_log # <<>> /\ ~Last(chat_log).ok) => LoopContinues

\* C8: a FAILED result carries the last ProviderError in its message and,
\* as partial_content, the content of the latest successful Response of the
\* run (empty when there was none).
C8_FailedCarriesPartial ==
    pc = "FAILED"
        => /\ result.error
           /\ result.message.error_msg = Last(chat_log).err
           /\ result.message.attempts = retry_on_error + 1
           /\ result.partial_content = LastAssistantContent(conversation_history)

C8_Witness ==
    /\ pc = "FAILED"
    /\ result.partial_content # <<>>
    /\ Len(chat_log) >= 3
    /\ chat_log[Len(chat_log) - 1].err # Last(chat_log).err
    /\ ~chat_log[Len(chat_log) - 1].ok

\* C9: a failed provider attempt leaves the conversation unchanged, and the
\* call that retries it is passed the same messages.
C9_FailureKeepsConversation ==
    [][/\ (Len(chat_log') = Len(chat_log) + 1 /\ ~Last(chat_log').ok)
            => conversation_history' = conversation_history
       /\ (pc = "loop" /\ pc' = "AWAITING_PROVIDER" /\ chat_log # <<>>
            /\ ~Last(chat_log).ok)
            => sent' = sent]_vars

C9_Witness ==
    /\ pc = "AWAITING_PROVIDER"
    /\ chat_log # <<>>
    /\ ~Last(chat_log).ok
    /\ Len(sent) >= 3
    /\ sent = conversation_history

\* C10: consecutive_errors counts the failures since the latest successful
\* call, so run is FAILED only after retry_on_error + 1 failures in a row.
C10_ConsecutiveOnly ==
    /\ provider # "kimmy_k2" => consecutive_errors = TrailingFailures(chat_log)
    /\ pc = "FAILED" => TrailingFailures(chat_log) = retry_on_error + 1

C10_Witness ==
    /\ pc = "loop"
    /\ Failures(chat_log) > retry_on_error
    /\ consecutive_errors = 1
    /\ \E i \in 1..Len(chat_log) : chat_log[i].ok


\* C11: with the stub backend kimmy_k2 as the provider, run() makes exactly
\* one chat call, never sleeps and never retries, and the failure leaves
\* run() as a NotImplementedError, which is not a ProviderError: it is not
\* counted as a provider error and no FAILED result is built.
C11_StubFailsFast ==
    provider = "kimmy_k2" =>
        /\ Len(chat_log) <= 1
        /\ sleeps = <<>>
        /\ consecutive_errors = 0
        /\ pc \notin {"FAILED", "DONE", "dispatch"}
        /\ chat_log # <<>> =>
              /\ pc = "RAISED"
              /\ result = [exception |-> "NotImplementedError"]
              /\ Last(chat_log).err \notin ProviderFailures
              /\ iteration = 1

C11_Witness ==
    /\ provider = "kimmy_k2"
    /\ pc = "RAISED"
    /\ Len(chat_log) = 1
    /\ retry_on_error >= 1
    /\ max_iterations >= 2

\* the call dispatched by a step that executes one
Dispatched == tool_calls[Len(tool_results) + 1]

\* C12: no tool fault crashes the loop: once a parsed call has been
\* dispatched, no exception has left run(), and every collected triple holds
\* a result mapping.
C12_NoToolFaultCrash ==
    /\ exec_log # <<>> => pc # "RAISED"
    /\ \A i \in 1..Len(tool_results) :
          LET r == Lookup(tool_results[i].v, <<"result">>) IN
          IsDict(r) /\ HasKey(r.v, <<"success">>)

\* C13: a dispatched call whose tool name is a string that is not registered
\* yields {success: false, error: "Unknown tool: <name>"}, touches no file,
\* leaves the remaining calls of the response to be dispatched, and after the
\* last call the result message is appended and the loop goes on.
C13_UnknownTool ==
    [][(/\ pc = "dispatch"
        /\ exec_log' # exec_log
        /\ Dispatched.tool.t = "str"
        /\ \A n \in _register_defaults : Dispatched.tool.v # <<n>>)
       => /\ tool_results' =
                Append(tool_results,
                       Obj(<<KV("tool", Dispatched.tool), KV("args", Dispatched.args),
                             KV("result",
                                Obj(<<KV("success", Bool(FALSE)),
                                      KV("error", Str(<<"Unknown tool: ">>
                                                      \o Dispatched.tool.v))>>))>>))
          /\ UNCHANGED <<fsvars, tool_calls>>
          /\ IF Len(tool_results') < Len(tool_calls)
             THEN pc' = "dispatch"
             ELSE /\ pc' = "loop"
                  /\ Len(conversation_history') = Len(conversation_history) + 1
                  /\ Last(conversation_history').role = "user"]_vars

C13_Witness ==
    /\ pc = "AWAITING_PROVIDER"
    /\ Len(chat_log) = 1
    /\ exec_log = <<S("fly"), S("read")>>
    /\ Len(tool_results) = 2
    /\ fs_log = <<>>

\* C14: ToolRegistry.get raises for no tool-name value the parser hands to
\* dispatch: it returns a registered callable or None.
C14_GetNeverRaises ==
    \A i \in 1..Len(tool_calls) : ~ToolRegistry_get(tool_calls[i].tool).raises

\* every urlopen call so far met a retryable failure: a server error, rate
\* limiting or a transport error
OnlyRetryableFailures ==
    \A i \in 1..Len(http_log) :
        \/ http_log[i].kind = "transport"
        \/ http_log[i].kind = "http" /\ http_log[i].code \in {500, 429}

\* C15: when every attempt of GLMProvider._make_request meets a retryable
\* failure, it makes exactly 3 attempts, sleeps 2 s after the first and 4 s
\* after the second, does not sleep after the last, and raises ProviderError.
C15_GlmBackoff ==
    (provider = "glm" /\ OnlyRetryableFailures) =>
        /\ Len(http_log) <= 3
        /\ Len(http_log) < 3 =>
              /\ chat_outcome = Pending
              /\ sleeps = SubSeq(<<2, 4>>, 1, Len(http_log))
        /\ Len(http_log) = 3 =>
              /\ chat_outcome.kind = "ProviderError"
              /\ sleeps = <<2, 4>>

C15_Witness ==
    /\ provider = "glm"
    /\ Len(http_log) = 3
    /\ http_log[1].kind = "http"
    /\ http_log[2].kind = "http"
    /\ http_log[3].kind = "transport"
    /\ chat_outcome.kind = "ProviderError"

\* C16: when GLMProvider._make_request has used up its attempts, the
\* ProviderError describes the last attempt's failure: its status code and
\* error body for an HTTP failure, its error text for a transport failure,
\* whatever the earlier attempts met.
C16_LastErrorSurfaces ==
    (/\ provider = "glm"
     /\ OnlyRetryableFailures
     /\ Len(http_log) = 3) =>
        /\ chat_outcome.kind = "ProviderError"
        /\ chat_outcome.msg.code = http_log[3].code
        /\ chat_outcome.msg.text = http_log[3].text
        /\ chat_outcome.msg.what =
              (IF http_log[3].kind = "http" THEN "API error"
               ELSE "request failed after retries")

C16_Witness ==
    /\ provider = "glm"
    /\ Len(http_log) = 3
    /\ http_log[1].kind = "http"
    /\ http_log[2].kind = "transport"
    /\ http_log[3].kind = "transport"
    /\ http_log[2].text # http_log[3].text
    /\ chat_outcome.kind = "ProviderError"
    /\ chat_outcome.msg.text = http_log[3].text

\* the bodies with zero completion choices (for Claude: no content block)
ZeroChoiceBodies(name) ==
    IF name = "claude" THEN {NoChoices, EmptyContentArray} ELSE {NoChoices, EmptyChoices}

\* C17: chat of every adapter returns a mapping holding content, raw and
\* model, or raises; on a body with zero completion choices (an empty
\* content array for Claude) it raises ProviderError.
C17_NoEmptySuccess ==
    chat_outcome # Pending =>
        /\ chat_outcome.kind = "return" =>
              /\ IsDict(chat_outcome.value)
              /\ \A key \in {"content", "raw", "model"} :
                    HasKey(chat_outcome.value.v, <<key>>)
        /\ (/\ Last(http_log).kind = "body"
            /\ Last(http_log).body \in ZeroChoiceBodies(provider))
           => chat_outcome.kind = "ProviderError"

C17_Witness ==
    /\ provider = "glm"
    /\ Len(http_log) = 2
    /\ Last(http_log).body = EmptyChoices
    /\ chat_outcome.kind = "ProviderError"

\* the bodies that do not have the structure the backend's adapter expects
UnexpectedBodies(name) ==
    {NotJson, JsonNumber, JsonArray}
    \cup (IF name = "claude" THEN {BlockNotObject} ELSE {ChoiceNotObject, NullMessage})

\* C18: on a body that does not have the expected structure, chat of every
\* adapter raises ProviderError.
C18_MalformedIsProviderError ==
    (/\ chat_outcome # Pending
     /\ Last(http_log).kind = "body"
     /\ Last(http_log).body \in UnexpectedBodies(provider))
    => chat_outcome.kind = "ProviderError"

\* the number of pieces of data equal to piece
OccurrencesOf(data, piece) == Cardinality({i \in 1..Len(data) : data[i] = piece})

\* the edit call a step runs, with replace_all left false
EditRuns(p, old) ==
    /\ tool_calls' = <<ToolCall(S("edit"), Obj(<<KV("file_path", S(p)),
                                                 KV("old_string", S(old)),
                                                 KV("new_string", S("b"))>>))>>
    /\ files[p].exists

\* C19: edit_file with replace_all false on a file holding old_string N > 1
\* times fails with an error stating "found N times" and leaves the file as
\* it was; with old_string absent from the file it fails too and the file
\* is unchanged.
C19_AmbiguousEditRefused ==
    [][\A p \in Paths, old \in {"a", "x"} :
          (EditRuns(p, old) /\ OccurrencesOf(files[p].data, old) # 1)
          => LET r == Lookup(tool_results'[1].v, <<"result">>)
                 n == OccurrencesOf(files[p].data, old)
             IN  /\ Lookup(r.v, <<"success">>) = Bool(FALSE)
                 /\ n > 1 => SubSeq(Lookup(r.v, <<"error">>).v, 1, 2)
                                = <<"old_string found ", IntStr(n)>>
                 /\ files' = files
                 /\ fs_log' = fs_log]_vars

C19_Witness ==
    /\ tool_calls = <<ToolCall(S("edit"), Obj(<<KV("file_path", S("notes.txt")),
                                                KV("old_string", S("a")),
                                                KV("new_string", S("b"))>>))>>
    /\ HasKey(Lookup(tool_results[1].v, <<"result">>).v, <<"error">>)
    /\ files["notes.txt"].data = <<"a", SP, "a">>
    /\ fs_log = <<>>

\* C20: every fenced block tagged tool, bash or command yields exactly one
\* call: the decoded call when its body is a JSON object with a tool key,
\* and otherwise a bash call whose command is the body.
C20_FencedBlockOneCall ==
    \A around \in Surroundings, tag \in FenceTags, body \in FenceBodies :
        last_content = Fenced(around, tag, body) =>
            LET d == json_loads(body) IN
            IF d.ok /\ IsDict(d.val) /\ HasKey(d.val.v, <<"tool">>)
            THEN tool_calls =
                    <<ToolCall(Lookup(d.val.v, <<"tool">>),
                               DictGet(d.val.v, <<"args">>,
                                       DictGet(d.val.v, <<"arguments">>, Obj(<<>>))))>>
            ELSE tool_calls = <<ToolCall(S("bash"), Obj(<<KV("command", Str(body))>>))>>

\* the calls the pieces of one form stand for, in the order of the pieces
RECURSIVE CallsOfForm(_, _)
CallsOfForm(segs, form) ==
    IF segs = <<>> THEN <<>>
    ELSE (IF Head(segs).form = form THEN Head(segs).calls ELSE <<>>)
         \o CallsOfForm(Tail(segs), form)

HasMalformed(segs) == \E i \in 1..Len(segs) : segs[i].form = "bracket" /\ segs[i].calls = <<>>

\* C21: a bracketed directive whose ARGS text does not decode contributes no
\* call, and every well-formed directive before or after it in the same
\* text is still returned.
C21_MalformedDirectiveDropped ==
    \A segs \in SegmentLists :
        (last_content = Join(segs) /\ HasMalformed(segs)) =>
            tool_calls = CallsOfForm(segs, "fenced") \o CallsOfForm(segs, "bracket")

\* a is b with some elements left out
RECURSIVE IsSubsequence(_, _)
IsSubsequence(a, b) ==
    IF a = <<>> THEN TRUE
    ELSE IF b = <<>> THEN FALSE
    ELSE IF Head(a) = Head(b) THEN IsSubsequence(Tail(a), Tail(b))
    ELSE IsSubsequence(a, Tail(b))

\* C28: _parse_tool_calls returns the calls of the fenced blocks in text
\* order, followed by the calls of the bracketed directives in text order,
\* for any mixture of the two forms; the order inside a form never changes.
C28_FencedThenBracketed ==
    \A segs \in SegmentLists :
        last_content = Join(segs) =>
            LET fenced == CallsOfForm(segs, "fenced")
                bracketed == CallsOfForm(segs, "bracket")
            IN  /\ Len(tool_calls) >= Len(fenced)
                /\ SubSeq(tool_calls, 1, Len(fenced)) = fenced
                /\ IsSubsequence(SubSeq(tool_calls, Len(fenced) + 1, Len(tool_calls)),
                                 bracketed)
                /\ (\A i \in 1..Len(segs) : segs[i].closed) =>
                      tool_calls = fenced \o bracketed

C28_Witness ==
    /\ last_content = Join(<<ReadDirective, BashFence, GlobDirective>>)
    /\ Len(tool_calls) = 3
    /\ tool_calls[1].tool = S("bash")
    /\ tool_calls[2].tool = S("read")
    /\ tool_calls[3].tool = S("glob")

\* C29: for a fenced block whose body decodes to an object with a tool key,
\* the call's tool is the value of tool and its args is the value of args
\* when present, else the value of arguments when present, else {}.
C29_ArgsFallback ==
    \A around \in Surroundings, tag \in FenceTags, body \in FenceBodies \cup {BothKeysBody} :
        LET d == json_loads(body) IN
        (/\ last_content = Fenced(around, tag, body)
         /\ d.ok /\ IsDict(d.val) /\ HasKey(d.val.v, <<"tool">>))
        => /\ Len(tool_calls) = 1
           /\ tool_calls[1].tool = Lookup(d.val.v, <<"tool">>)
           /\ tool_calls[1].args =
                 (IF HasKey(d.val.v, <<"args">>) THEN Lookup(d.val.v, <<"args">>)
                  ELSE IF HasKey(d.val.v, <<"arguments">>)
                  THEN Lookup(d.val.v, <<"arguments">>)
                  ELSE Obj(<<>>))

C29_Witness ==
    /\ last_content = Fenced("bare", "tool", BothKeysBody)
    /\ tool_calls = <<ToolCall(S("read"), Obj(<<KV("file_path", S("notes.txt"))>>))>>

\* C22: decoding the JSON text of the "Tool execution results" message the
\* loop appends gives back exactly the list of {tool, args, result} triples
\* collected during dispatch, in the same order.
C22_ResultsRoundTrip ==
    [][(pc = "dispatch" /\ pc' = "loop") =>
          LET text == Last(conversation_history').content IN
          /\ SubSeq(text, 1, 2) = <<"Tool execution results:", NL>>
          /\ json_loads(SubSeq(text, 3, Len(text))) = [ok |-> TRUE, val |-> Arr(tool_results')]
          /\ Len(tool_results') = Len(tool_calls)]_vars

C22_Witness ==
    /\ pc = "loop"
    /\ Len(tool_results) = 2
    /\ exec_log = <<S("read"), S("fly")>>
    /\ Last(conversation_history).role = "user"
    /\ Lookup(Lookup(tool_results[1].v, <<"result">>).v, <<"content">>) = Str(<<"a", SP, "a">>)

\* C23: the calls of a response are executed one at a time in parsed order,
\* all of them before the next provider.chat call; one user message is
\* appended when the last has finished and none before; no step both calls
\* the provider and executes a tool.
C23_SequentialDispatch ==
    [][/\ pc' = "AWAITING_PROVIDER" => Len(tool_results') = Len(tool_calls')
       /\ \A i \in 1..Len(tool_results') :
             /\ i <= Len(tool_calls')
             /\ Lookup(tool_results'[i].v, <<"tool">>) = tool_calls'[i].tool
             /\ Lookup(tool_results'[i].v, <<"args">>) = tool_calls'[i].args
       /\ chat_log' # chat_log => exec_log' = exec_log
       /\ exec_log' # exec_log =>
             /\ chat_log' = chat_log
             /\ pc = "dispatch"
             /\ Len(exec_log') = Len(exec_log) + 1
       /\ (pc = "dispatch" /\ pc' = "dispatch") =>
             conversation_history' = conversation_history
       /\ (pc = "dispatch" /\ pc' = "loop") =>
             /\ Len(conversation_history') = Len(conversation_history) + 1
             /\ Last(conversation_history').role = "user"
             /\ Len(tool_results') = Len(tool_calls)]_vars

C23_Witness ==
    /\ pc = "AWAITING_PROVIDER"
    /\ Len(chat_log) = 1
    /\ exec_log = <<S("read"), S("fly")>>
    /\ Len(tool_results) = 2
    /\ Last(conversation_history).role = "user"

\* the index of the user prompt
PromptIndex == IF conversation_history[1].role = "system" THEN 2 ELSE 1

\* C24: in every conversation of a run, each assistant message directly
\* follows a user-role message, a system message is only at the first
\* index, and each tool-result message directly follows an assistant message.
C24_Alternation ==
    pc # "init" =>
        \A i \in 1..Len(conversation_history) :
            LET m == conversation_history[i] IN
            /\ m.role = "assistant" => (i > 1 /\ conversation_history[i - 1].role = "user")
            /\ m.role = "system" => i = 1
            /\ (m.role = "user" /\ i > PromptIndex) =>
                  conversation_history[i - 1].role = "assistant"

C24_Witness ==
    /\ pc = "DONE"
    /\ Len(conversation_history) = 5
    /\ conversation_history[1].role = "system"
    /\ conversation_history[4].role = "user"

\* the run is over: the last response parsed to zero calls, or the
\* consecutive failures exceed the ceiling
Terminated ==
    \/ chat_log # <<>> /\ Last(chat_log).ok /\ tool_calls = <<>>
    \/ TrailingFailures(chat_log) > retry_on_error

\* C25: once the parser has yielded zero calls, or the consecutive-error
\* counter has exceeded the ceiling, the run makes no further provider call,
\* executes no tool, appends nothing to the conversation and does not sleep.
C25_TerminalStates ==
    [][Terminated =>
          /\ pc \in {"DONE", "FAILED", "RAISED"}
          /\ UNCHANGED <<chat_log, exec_log, conversation_history, sleeps, fs_log>>]_vars

C25_Witness ==
    /\ pc = "FAILED"
    /\ iteration < max_iterations
    /\ Len(chat_log) = 2
    /\ chat_log[1].ok

\* C26: when run returns through the break (a Response, no error flag, the
\* budget not the reason), the last message of the conversation is the
\* assistant message holding the returned content, which parses to no call.
C26_DoneReturnsLastMessage ==
    pc = "DONE" =>
        /\ "error" \notin DOMAIN result
        /\ Last(conversation_history) = Message("assistant", result.content)
        /\ _parse_tool_calls(result.content) = <<>>
        /\ result = final_response

C26_Witness ==
    /\ pc = "DONE"
    /\ Len(chat_log) = 3
    /\ iteration = max_iterations
    /\ exec_log # <<>>

\* C27: after the k-th consecutive failure, k not above the ceiling, run
\* sleeps 2 * k seconds and goes back to the loop; above the ceiling it
\* returns FAILED without sleeping; it sleeps at no other point.
C27_LoopBackoff ==
    [][/\ (/\ Len(chat_log') = Len(chat_log) + 1
           /\ ~Last(chat_log').ok
           /\ provider # "kimmy_k2")
          => LET k == TrailingFailures(chat_log') IN
             IF k <= retry_on_error
             THEN sleeps' = Append(sleeps, 2 * k) /\ pc' = "loop"
             ELSE sleeps' = sleeps /\ pc' = "FAILED"
       /\ sleeps' # sleeps => (chat_log' # chat_log /\ ~Last(chat_log').ok)]_vars

C27_Witness ==
    /\ pc = "AWAITING_PROVIDER"
    /\ sleeps = <<2, 4>>
    /\ Len(chat_log) = 2

\* a failure the adapter must not retry
FatalReply(reply) ==
    \/ reply.kind = "http" /\ reply.code < 500 /\ reply.code # 429
    \/ reply.kind = "body" /\ reply.body = NotJson

\* C30: GLMProvider._make_request does not retry a fatal failure: on any
\* attempt, an HTTP status below 500 other than 429, or a body that is not
\* valid JSON, makes it raise ProviderError at once, with no sleep and no
\* further attempt.
C30_FatalNotRetriedByGlm ==
    provider = "glm" =>
        \A i \in 1..Len(http_log) :
            FatalReply(http_log[i]) =>
                /\ i = Len(http_log)
                /\ chat_outcome.kind = "ProviderError"
                /\ Len(sleeps) = i - 1

C30_Witness ==
    /\ provider = "glm"
    /\ Len(http_log) = 2
    /\ http_log[1].kind = "transport"
    /\ http_log[2].code = 401
    /\ sleeps = <<2>>
    /\ chat_outcome.kind = "ProviderError"

----------------------------------------------------------------------------
(* ClaudeProvider: the request payload *)

\* the for loop of _convert_messages_to_claude_format from message i on:
\* a system message sets system_prompt, a user or assistant message is
\* appended as a new dict, anything else is skipped; messages is the list
\* the caller passed, as the call leaves it
RECURSIVE ConvertFrom(_, _, _, _)
ConvertFrom(messages, i, system_prompt, claude_messages) ==
    IF i > Len(messages)
    THEN [system_prompt |-> system_prompt, claude_messages |-> claude_messages,
          messages |-> messages]
    ELSE LET role == messages[i].role
             content == messages[i].content
         IN  IF role = "system"
             THEN ConvertFrom(messages, i + 1, content, claude_messages)
             ELSE IF role \in {"user", "assistant"}
                  THEN ConvertFrom(messages, i + 1, system_prompt,
                                   Append(claude_messages, Message(role, content)))
                  ELSE ConvertFrom(messages, i + 1, system_prompt, claude_messages)

\* a conversion that copies every message, the system message included
_convert_messages_to_claude_format_KeepsSystem(messages) ==
    [ConvertFrom(messages, 1, <<>>, <<>>) EXCEPT !.claude_messages = messages]

_convert_messages_to_claude_format(messages) == ConvertFrom(messages, 1, <<>>, <<>>)

\* the payload ClaudeProvider.chat builds for the messages the loop passes
\* (the loop passes temperature and max_tokens and no other keyword)
ClaudePayload(messages) ==
    LET converted == _convert_messages_to_claude_format(messages)
    IN  [keys |-> {"model", "messages", "max_tokens", "temperature"}
                  \cup (IF converted.system_prompt # <<>> THEN {"system"} ELSE {}),
         model |-> default_model("claude"),
         messages |-> converted.claude_messages,
         system |-> converted.system_prompt]

\* the messages of the given roles, in order
WithRoles(messages, roles) == SelectSeq(messages, LAMBDA m : m.role \in roles)

\* C31: whenever the loop has called ClaudeProvider.chat, the payload's
\* messages are exactly the user and assistant messages of the conversation
\* passed, in their order, with no system entry; the conversation's system
\* content is the payload's top-level system field (absent when the
\* conversation has no system message); and the list passed is unmodified
C31_ClaudePayload ==
    (provider = "claude" /\ pc = "AWAITING_PROVIDER") =>
        LET payload == ClaudePayload(sent)
            system == WithRoles(sent, {"system"})
        IN  /\ payload.messages = WithRoles(sent, {"user", "assistant"})
            /\ \A i \in 1..Len(payload.messages) : payload.messages[i].role # "system"
            /\ IF system # <<>>
               THEN "system" \in payload.keys /\ payload.system = system[1].content
               ELSE "system" \notin payload.keys
            /\ _convert_messages_to_claude_format(sent).messages = sent
            /\ conversation_history = sent

C31_Witness ==
    /\ provider = "claude"
    /\ pc = "AWAITING_PROVIDER"
    /\ Len(sent) >= 4
    /\ sent[1].role = "system"
    /\ Len(ClaudePayload(sent).messages) = Len(sent) - 1
    /\ ClaudePayload(sent).system = <<"be", SP, "done">>

\* the result of triple i of tool_results was produced by a default tool
ByDefaultTool(triple) ==
    LET tool == Lookup(triple.v, <<"tool">>)
    IN  tool.t = "str" /\ Len(tool.v) = 1 /\ tool.v[1] \in _register_defaults

\* C32: every result a default tool returned is a dict with a boolean
\* success field, and every such result with success = false carries an
\* error text field
C32_ResultShape ==
    \A i \in 1..Len(tool_results) :
        ByDefaultTool(tool_results[i]) =>
            LET res == Lookup(tool_results[i].v, <<"result">>)
            IN  /\ IsDict(res)
                /\ HasKey(res.v, <<"success">>)
                /\ Lookup(res.v, <<"success">>).t = "bool"
                /\ (Lookup(res.v, <<"success">>) = Bool(FALSE) =>
                        /\ HasKey(res.v, <<"error">>)
                        /\ Lookup(res.v, <<"error">>).t = "str")

----------------------------------------------------------------------------
(* BaseAgent.run: termination *)

\* run() is single-threaded: while it has not returned or raised, its next
\* step is taken (every provider call and tool execution returns); the
\* budgets are none, one and several iterations
InitLive ==
    /\ AgentInit({"glm", "kimmy_k2"}, {0, 1, 3}, {0, 1})
    /\ FsInit({"posix"}, {TRUE})
    /\ NetInit
    /\ CfgInit

SpecLive == InitLive /\ [][Next]_vars /\ WF_vars(Next)

\* run() is over: it returned, or an exception left it
RunOver == pc \in {"DONE", "FAILED", "EXHAUSTED", "RAISED"}

\* C35: run never makes more than max_iterations provider.chat calls,
\* failed attempts included, and every run is eventually over
C35_Terminates ==
    /\ [](Len(chat_log) <= max_iterations /\ iteration <= max_iterations)
    /\ <>RunOver

C35_Witness ==
    /\ pc = "EXHAUSTED"
    /\ max_iterations = 3
    /\ Len(chat_log) = max_iterations
    /\ \E i \in 1..Len(chat_log) : ~chat_log[i].ok
    /\ \E i \in 1..Len(chat_log) : chat_log[i].ok
    /\ exec_log # <<>>

\* C36: when the last provider.chat call of a run raised ProviderError, the
\* value run returns is an error result (error: True), never a Response
C36_LastFailureReported ==
    (Returned /\ chat_log # <<>> /\ ~Last(chat_log).ok) =>
        /\ "error" \in DOMAIN result
        /\ result.error = TRUE

----------------------------------------------------------------------------
(* BaseAgent: several runs of one agent, and reset() *)

\* the prompts of a later run of the same agent
LaterPrompts == {<<"do", SP, "y">>}

\* no run() is in progress on the agent
Idle == pc \in {"init", "DONE", "FAILED", "EXHAUSTED", "RAISED"}

\* run() is called again on an agent whose earlier run is over: the messages
\* are rebuilt and the locals set as in RunStart; the logs are those of the
\* new run
RunAgain ==
    /\ RunOver
    /\ \E prompt \in LaterPrompts, system_prompt \in SystemPrompts :
          conversation_history' =
              HistoryAtStart(conversation_history, InitialMessages(prompt, system_prompt))
    /\ iteration' = 0
    /\ final_response' = NoResponse
    /\ last_content' = <<>>
    /\ consecutive_errors' = 0
    /\ pc' = "loop"
    /\ tool_calls' = <<>>
    /\ tool_results' = <<>>
    /\ result' = NoResult
    /\ chat_log' = <<>>
    /\ exec_log' = <<>>
    /\ sent' = <<>>
    /\ sleeps' = <<>>
    /\ fs_log' = <<>>
    /\ UNCHANGED <<provider, max_iterations, retry_on_error, platform, files, dirs,
                   netvars, cfgvars>>

\* reset(), called by the agent's owner between runs
reset ==
    /\ RunOver
    /\ conversation_history # <<>>
    /\ conversation_history' = <<>>
    /\ UNCHANGED <<provider, max_iterations, retry_on_error, pc, iteration,
                   final_response, last_content, consecutive_errors, tool_calls,
                   tool_results, result, chat_log, exec_log, sent, sleeps, fsvars,
                   netvars, cfgvars>>

InitRuns ==
    /\ AgentInit({"glm", "kimmy_k2"}, {1, 2}, {0, 1})
    /\ FsInit({"posix"}, {TRUE})
    /\ NetInit
    /\ CfgInit

NextRuns ==
    \/ Next
    \/ RunAgain
    \/ reset

SpecRuns == InitRuns /\ [][NextRuns]_vars

\* the conversations a run can start from
StartMessages ==
    {InitialMessages(prompt, system_prompt) :
        prompt \in Prompts \cup LaterPrompts, system_prompt \in SystemPrompts}

\* C34: a step that does anything to the conversation other than append to
\* it is the start of a run or a reset() on an agent with no run in
\* progress; the start of a run leaves exactly that run's system message and
\* prompt, a reset leaves nothing
C34_NoImplicitReset ==
    [][/\ (pc \in {"loop", "AWAITING_PROVIDER", "dispatch"})
              => IsPrefix(conversation_history, conversation_history')
       /\ (Idle /\ pc' = "loop") => conversation_history' \in StartMessages
       /\ (Idle /\ pc' # "loop" /\ conversation_history' # conversation_history)
              => conversation_history' = <<>>]_vars

C34_Witness ==
    /\ pc = "AWAITING_PROVIDER"
    /\ Len(conversation_history) = 4
    /\ conversation_history[1].role = "system"
    /\ conversation_history[2] = Message("user", <<"do", SP, "y">>)

----------------------------------------------------------------------------
(* Configuration and the provider factory *)

PROVIDER_REGISTRY ==
    [glm47 |-> "GLM47Provider", claude |-> "ClaudeProvider",
     codex |-> "CodexProvider", kimmy_k2 |-> "KimmyK2Provider"]

DEFAULT_PROVIDER == "glm47"

\* the value the example configuration ships for a key
Placeholder == "your_api_key_here"

\* Python's `x or y` on Optional[str] values
PyOr(x, y) == IF x = None \/ x = Some("") THEN y ELSE x

\* os.getenv(name, default)
getenv(name, default) == IF environ[name] = None THEN Some(default) ELSE environ[name]

\* the texts int() accepts
IntTexts == {"0", "5"}

\* Config.__init__: the attributes, or the ValueError of int()
Config ==
    [raises |-> ~(getenv("MAX_ITERATIONS", "0") \subseteq IntTexts),
     opencode_api_key |-> getenv("OPENCODE_API_KEY", ""),
     anthropic_api_key |-> getenv("ANTHROPIC_API_KEY", ""),
     openai_api_key |-> getenv("OPENAI_API_KEY", ""),
     kimmy_k2_api_key |-> getenv("KIMMY_K2_API_KEY", ""),
     provider |-> getenv("PROVIDER", DEFAULT_PROVIDER),
     model |-> getenv("OPENCODE_MODEL", "")]

\* Config.get_api_key: key_map.get(provider)
get_api_key(config, provider_name) ==
    CASE provider_name = Some("glm47") -> config.opencode_api_key
      [] provider_name = Some("claude") -> config.anthropic_api_key
      [] provider_name = Some("codex") -> config.openai_api_key
      [] provider_name = Some("kimmy_k2") -> config.kimmy_k2_api_key
      [] OTHER -> None

\* provider_name in PROVIDER_REGISTRY
Registered(provider_name) ==
    provider_name # None /\ provider_name \subseteq DOMAIN PROVIDER_REGISTRY

\* a key test that forgets the placeholder
KeyMissing_EmptyOnly(api_key) == api_key = None \/ api_key = Some("")

\* not api_key or api_key == "your_api_key_here"
KeyMissing(api_key) == api_key = None \/ api_key = Some("") \/ api_key = Some(Placeholder)

\* a raise of ValueError: no provider class was called
ValueError(text) == [kind |-> "ValueError", text |-> text, constructed |-> <<>>]

\* provider_class(api_key=api_key, model=model)
Instance(class, api_key, model) ==
    [kind |-> "returned", class |-> class, api_key |-> api_key, model |-> model,
     constructed |-> <<class>>]

get_provider(provider_name, api_key, model) ==
    LET config == Config
    IN  IF config.raises THEN ValueError("invalid literal for int()")
        ELSE LET name == PyOr(provider_name, config.provider)
             IN  IF ~Registered(name) THEN ValueError("Unknown provider")
                 ELSE LET key == IF api_key = None \/ api_key = Some("")
                                 THEN get_api_key(config, name)
                                 ELSE api_key
                      IN  IF KeyMissing(key) THEN ValueError("API key not provided")
                          ELSE Instance(PROVIDER_REGISTRY[CHOOSE n \in name : TRUE],
                                        key, model)

\* the environments a process is started in
Environs ==
    {[name \in EnvNames |->
         CASE name = "PROVIDER" -> e[1]
           [] name = "MAX_ITERATIONS" -> e[2]
           [] name = "OPENCODE_API_KEY" -> e[3]
           [] name = "ANTHROPIC_API_KEY" -> e[4]
           [] OTHER -> None] :
        e \in {None, Some(""), Some("claude"), Some("gpt")}
              \X {None, Some(""), Some("5"), Some("abc")}
              \X {None, Some("sk-oc")}
              \X {None, Some(Placeholder), Some("sk-ant")}}

NameArgs ==
    {None, Some(""), Some("glm47"), Some("claude"), Some("codex"), Some("kimmy_k2"),
     Some("gpt")}

KeyArgs == {None, Some(""), Some(Placeholder), Some("sk-arg")}

InitConfig ==
    /\ AgentInit({"glm"}, {0}, {0})
    /\ FsInit({"posix"}, {TRUE})
    /\ NetInit
    /\ environ \in Environs
    /\ factory = NotCalled

\* a caller asks the factory for a provider
GetProvider ==
    /\ factory = NotCalled
    /\ \E provider_name \in NameArgs, api_key \in KeyArgs :
          factory' = [provider_name |-> provider_name, api_key |-> api_key,
                      out |-> get_provider(provider_name, api_key, None)]
    /\ UNCHANGED <<agentvars, fsvars, netvars, environ>>

NextConfig == GetProvider

SpecConfig == InitConfig /\ [][NextConfig]_vars

\* the environment variable that holds the key of a provider
KeyVariable(name) ==
    CASE name = Some("glm47") -> "OPENCODE_API_KEY"
      [] name = Some("claude") -> "ANTHROPIC_API_KEY"
      [] name = Some("codex") -> "OPENAI_API_KEY"
      [] name = Some("kimmy_k2") -> "KIMMY_K2_API_KEY"

\* the provider name a call resolves to: the argument, else PROVIDER, else
\* the default
ResolvedName ==
    IF factory.provider_name \notin {None, Some("")} THEN factory.provider_name
    ELSE IF environ["PROVIDER"] # None THEN environ["PROVIDER"]
    ELSE Some(DEFAULT_PROVIDER)

\* the key a call resolves to: the argument, else the provider's variable
ResolvedKey ==
    IF factory.api_key \notin {None, Some("")} THEN factory.api_key
    ELSE environ[KeyVariable(ResolvedName)]

\* the call is a configuration error
Misconfigured ==
    \/ ResolvedName \notin {Some(n) : n \in DOMAIN PROVIDER_REGISTRY}
    \/ ResolvedKey \in {None, Some(""), Some(Placeholder)}

\* C33: a get_provider call whose resolved provider name is not in the
\* registry, or whose resolved API key is empty or the placeholder, raises
\* ValueError and constructs no provider; a call that returns has returned
\* an instance of the registered class holding the resolved key
C33_ConfigErrorsFatal ==
    factory # NotCalled =>
        /\ Misconfigured =>
               factory.out.kind = "ValueError" /\ factory.out.constructed = <<>>
        /\ factory.out.kind = "returned" =>
               /\ ~Misconfigured
               /\ \E n \in DOMAIN PROVIDER_REGISTRY :
                     /\ ResolvedName = Some(n)
                     /\ factory.out.class = PROVIDER_REGISTRY[n]
               /\ factory.out.api_key = ResolvedKey

C33_Witness ==
    /\ factory # NotCalled
    /\ factory.provider_name = None
    /\ factory.api_key = None
    /\ environ["PROVIDER"] = Some("claude")
    /\ environ["ANTHROPIC_API_KEY"] = Some(Placeholder)
    /\ environ["MAX_ITERATIONS"] = Some("5")
    /\ factory.out = ValueError("API key not provided")

============================================================================
